---- MODULE Spec2Model ----
(***************************************************************************)
(* Model of the auction-audit module (package auctionaudit): the bounded    *)
(* filter registry with TTL clamping, matcher and expiry sweep, the filter  *)
(* consumer, the producer and the orchestrator; and of the archive sinks    *)
(* with their upload client (package s3).                                   *)
(* Strings are sequences of byte codes so that case folding is computed.    *)
(***************************************************************************)
EXTENDS Integers, Sequences, FiniteSets, TLC

VARIABLES
    byAccount,      \* FilterRegistry.byAccount: accountId -> sessionId -> storedFilter
    count,          \* FilterRegistry.count
    now,            \* the wall clock, in milliseconds (time.Now().UnixMilli())
    activeFilters,  \* value of the active-filters gauge of the metrics engine
    last,           \* the latest call: operation, arguments, result, counters recorded
    mtIn,           \* media-type conversion: the value the conversion started from
    mtTypes,        \* media-type conversion: the []MediaType at hand
    mtSet,          \* media-type conversion: the MediaTypeSet at hand
    mtPc,           \* media-type conversion: the step reached
    claimQ,         \* filter consumer: messages waiting in claim.Messages()
    claimOpen,      \* filter consumer: the channel claim.Messages() is open
    sessionDone,    \* filter consumer: session.Context() is done
    cpc,            \* filter consumer: position of ConsumeClaim
    cur,            \* filter consumer: the message handled last and what was done
    marked,         \* filter consumer: offsets handed to session.MarkMessage, in order
    nextOffset,     \* filter consumer: offset of the next message of the partition
    lpc,            \* consumeLoop: position of the loop
    consecutiveFailures, \* consumeLoop: its local counter
    returns,        \* consumeLoop: the returns of Consume so far, with their times
    lnow,           \* consumeLoop: the clock, in seconds
    fcCtxDone,      \* consumeLoop: fc.ctx is cancelled
    maxBufferByteSize, \* archive sinks: S3Logger.maxBufferByteSize of the configuration
    wpc,            \* archive sinks: per event type, position of S3Logger.start
    bufferSize,     \* archive sinks: per event type, S3Logger.bufferSize
    buffer,         \* archive sinks: per event type, the bytes written through gzw
    received,       \* archive sinks: per event type, the payloads taken from bufferCh
    uploads,        \* archive sinks: per event type, the upload tasks flush started
    tickC,          \* archive sinks: per event type, a tick waits in ticker.C
    sigTermCh,      \* archive sinks: per event type, a signal waits in sigTermCh
    spc,            \* archive sinks: position of the caller of S3Module.Shutdown
    atShutdown,     \* archive sinks: per event type, payloads received when Shutdown began
    clpc,           \* module: position of FilterRegistry.cleanupLoop
    shutdownSteps,  \* module: what AuctionAuditModule.Shutdown has done so far, in order
    sending         \* archive sinks: per event type, a caller waits at bufferCh <- payload

registryVars == <<byAccount, count, now, activeFilters, last>>
mediaVars == <<mtIn, mtTypes, mtSet, mtPc>>
consumerVars == <<claimQ, claimOpen, sessionDone, cpc, cur, marked, nextOffset>>
loopVars == <<lpc, consecutiveFailures, returns, lnow, fcCtxDone>>
sinkVars == <<maxBufferByteSize, wpc, bufferSize, buffer, received, uploads, tickC,
              sigTermCh, spc, atShutdown>>
moduleVars == <<clpc, shutdownSteps, sending>>
vars == <<registryVars, mediaVars, consumerVars, loopVars, sinkVars, moduleVars>>
nonRegistryVars == <<mediaVars, consumerVars, loopVars, sinkVars, moduleVars>>
nonMediaVars == <<registryVars, consumerVars, loopVars, sinkVars, moduleVars>>
asideConsumer == <<mediaVars, loopVars, sinkVars, moduleVars>>
asideLoop == <<registryVars, mediaVars, consumerVars, sinkVars, moduleVars>>
asideSink == <<registryVars, mediaVars, consumerVars, loopVars, moduleVars>>

\* no filter consumer has been started
ConsumerIdle ==
    /\ claimQ = <<>>
    /\ claimOpen = FALSE
    /\ sessionDone = FALSE
    /\ cpc = "idle"
    /\ cur = [op |-> "none"]
    /\ marked = <<>>
    /\ nextOffset = 0

\* no cleanupLoop has been started, Shutdown has not been called, and no caller waits
\* to hand a payload to an archive sink
ModuleIdle ==
    /\ clpc = "idle"
    /\ shutdownSteps = <<>>
    /\ sending = [k \in {"auction", "amp", "video"} |-> FALSE]

\* no consumeLoop has been started
LoopIdle ==
    /\ lpc = "idle"
    /\ consecutiveFailures = 0
    /\ returns = <<>>
    /\ lnow = 0
    /\ fcCtxDone = FALSE

\* the event types NewModule starts a logger for
Kinds == {"auction", "amp", "video"}

\* no archive module has been built
SinkIdle ==
    /\ maxBufferByteSize = 0
    /\ wpc = [k \in Kinds |-> "idle"]
    /\ bufferSize = [k \in Kinds |-> 0]
    /\ buffer = [k \in Kinds |-> <<>>]
    /\ received = [k \in Kinds |-> <<>>]
    /\ uploads = [k \in Kinds |-> <<>>]
    /\ tickC = [k \in Kinds |-> FALSE]
    /\ sigTermCh = [k \in Kinds |-> FALSE]
    /\ spc = "idle"
    /\ atShutdown = [k \in Kinds |-> 0]

\* the media-type conversion is not in use
MediaIdle ==
    /\ mtIn = <<>>
    /\ mtTypes = <<>>
    /\ mtSet = 0
    /\ mtPc = "idle"

----------------------------------------------------------------------------
(* Bounds of the model *)

MaxFilters == 2     \* maxFilters handed to NewFilterRegistry
MaxTTL == 1         \* maxTTL handed to NewFilterRegistry, in clock units
MaxTime == 2        \* the clock runs from 0 to MaxTime
MaxTypes == 4       \* longest []MediaType drawn for the conversion

----------------------------------------------------------------------------
(* Bit operations on MediaTypeSet (uint8) *)

MediaTypeBannerBit == 1
MediaTypeVideoBit == 2
MediaTypeAudioBit == 4
MediaTypeNativeBit == 8

RECURSIVE BitAnd(_, _)
BitAnd(a, b) ==
    IF a = 0 \/ b = 0 THEN 0
    ELSE (a % 2) * (b % 2) + 2 * BitAnd(a \div 2, b \div 2)

RECURSIVE BitOr(_, _)
BitOr(a, b) ==
    IF a = 0 THEN b
    ELSE IF b = 0 THEN a
    ELSE (IF (a % 2) + (b % 2) > 0 THEN 1 ELSE 0) + 2 * BitOr(a \div 2, b \div 2)

\* one iteration of the switch in ToMediaTypeSet
MediaTypeBit(t) ==
    CASE t = "MEDIA_TYPE_BANNER" -> MediaTypeBannerBit
      [] t = "MEDIA_TYPE_VIDEO"  -> MediaTypeVideoBit
      [] t = "MEDIA_TYPE_AUDIO"  -> MediaTypeAudioBit
      [] t = "MEDIA_TYPE_NATIVE" -> MediaTypeNativeBit
      [] OTHER -> 0

RECURSIVE ToMediaTypeSetSum(_)
ToMediaTypeSetSum(types) ==
    IF types = <<>> THEN 0
    ELSE (ToMediaTypeSetSum(SubSeq(types, 1, Len(types) - 1))
          + MediaTypeBit(types[Len(types)])) % 256

RECURSIVE ToMediaTypeSet(_)
ToMediaTypeSet(types) ==
    IF types = <<>> THEN 0
    ELSE BitOr(ToMediaTypeSet(SubSeq(types, 1, Len(types) - 1)),
               MediaTypeBit(types[Len(types)])) % 256

Intersects(s, other) == BitAnd(s, other) # 0

ToSliceAudioAsVideo(s) ==
    (IF BitAnd(s, MediaTypeBannerBit) # 0 THEN <<"MEDIA_TYPE_BANNER">> ELSE <<>>)
    \o (IF BitAnd(s, MediaTypeVideoBit) # 0 THEN <<"MEDIA_TYPE_VIDEO">> ELSE <<>>)
    \o (IF BitAnd(s, MediaTypeAudioBit) # 0 THEN <<"MEDIA_TYPE_VIDEO">> ELSE <<>>)
    \o (IF BitAnd(s, MediaTypeNativeBit) # 0 THEN <<"MEDIA_TYPE_NATIVE">> ELSE <<>>)

ToSlice(s) ==
    (IF BitAnd(s, MediaTypeBannerBit) # 0 THEN <<"MEDIA_TYPE_BANNER">> ELSE <<>>)
    \o (IF BitAnd(s, MediaTypeVideoBit) # 0 THEN <<"MEDIA_TYPE_VIDEO">> ELSE <<>>)
    \o (IF BitAnd(s, MediaTypeAudioBit) # 0 THEN <<"MEDIA_TYPE_AUDIO">> ELSE <<>>)
    \o (IF BitAnd(s, MediaTypeNativeBit) # 0 THEN <<"MEDIA_TYPE_NATIVE">> ELSE <<>>)

----------------------------------------------------------------------------
(* strings.EqualFold on ASCII strings *)

RECURSIVE EqualFoldFrom(_, _, _)
EqualFoldFrom(s, t, i) ==
    IF i > Len(s) \/ i > Len(t) THEN Len(s) = Len(t)
    ELSE LET lo == IF t[i] < s[i] THEN t[i] ELSE s[i]
             hi == IF t[i] < s[i] THEN s[i] ELSE t[i]
         IN  IF lo = hi THEN EqualFoldFrom(s, t, i + 1)
             ELSE IF 65 <= lo /\ lo <= 90 /\ hi = lo + 32
                  THEN EqualFoldFrom(s, t, i + 1)
                  ELSE FALSE

EqualFoldExact(s, t) == s = t

EqualFold(s, t) == EqualFoldFrom(s, t, 1)

----------------------------------------------------------------------------
(* Maps *)

EmptyMap == [x \in {} |-> 0]
MapPut(m, k, v) == [x \in (DOMAIN m) \cup {k} |-> IF x = k THEN v ELSE m[x]]
MapDel(m, k) == [x \in (DOMAIN m) \ {k} |-> m[x]]

HasKey(acc, sid) == acc \in DOMAIN byAccount /\ sid \in DOMAIN byAccount[acc]
StoredKeys ==
    UNION {{<<a, s>> : s \in DOMAIN byAccount[a]} : a \in DOMAIN byAccount}
Stored(acc, sid) == byAccount[acc][sid]

----------------------------------------------------------------------------
(* Inputs: AuctionFilterRequest values and matcher queries *)

AcctLower == <<97>>                 \* "a"
AcctUpper == <<65>>                 \* "A"
Accounts == {AcctLower, AcctUpper}
Sessions == {1, 2}

DomAb == <<65, 98>>                 \* "Ab"
DomaB == <<97, 66>>                 \* "aB"
DomAc == <<65, 99>>                 \* "Ac"
AppCd == <<67, 100>>                \* "Cd"
AppCD == <<67, 68>>                 \* "CD"
AppC == <<67>>                      \* "C"

FarFuture == MaxTime + MaxTTL + 1   \* an expiry beyond every now + maxTTL

Nil == [isNil |-> TRUE]

Filter(sid, part, acc, dom, app, types, exp) ==
    [SessionId |-> sid, PartitionId |-> part, AccountId |-> acc, Domain |-> dom,
     AppBundle |-> app, MediaTypes |-> types, ExpiresAtMs |-> exp]

KeyedFilters(shapes) ==
    {Filter(sid, sh[1], acc, sh[2], sh[3], sh[4], sh[5]) :
        sid \in Sessions, acc \in Accounts, sh \in shapes}

InvalidFilters ==
    {Nil,
     Filter(0, 0, AcctLower, <<>>, <<>>, <<>>, 0),
     Filter(1, 0, <<>>, <<>>, <<>>, <<>>, 0)}

\* requests that differ in expiry and partition: <<partition, domain, bundle, types, expiry>>
LifecycleShapes ==
    {<<0, <<>>, <<>>, <<>>, exp>> : exp \in {MaxTTL, 0, -1, FarFuture}}
    \cup {<<1, DomAb, <<>>, <<>>, MaxTTL>>}

FilterInputs == KeyedFilters(LifecycleShapes) \cup InvalidFilters

Queries ==
    [accountID : Accounts, domain : {<<>>, DomaB}, appBundle : {<<>>},
     eventMediaTypes : {0}]

\* requests that differ in domain, bundle and media types
MatchShapes ==
    {<<0, sh[1], sh[2], sh[3], MaxTTL>> :
        sh \in {<<<<>>, <<>>, <<>>>>,
                <<DomAb, <<>>, <<>>>>,
                <<<<>>, AppCd, <<>>>>,
                <<<<>>, <<>>, <<"MEDIA_TYPE_VIDEO">>>>,
                <<DomAb, AppCd, <<"MEDIA_TYPE_VIDEO">>>>,
                <<<<>>, <<>>, <<"MEDIA_TYPE_NATIVE", "MEDIA_TYPE_UNSPECIFIED",
                                "MEDIA_TYPE_7", "MEDIA_TYPE_NATIVE">>>>}}

MatchFilterInputs == KeyedFilters(MatchShapes)

MatchEvents ==
    {<<<<>>, <<>>, 0>>, <<DomaB, AppCD, 2>>, <<DomAc, AppCD, 2>>,
     <<DomaB, AppC, 2>>, <<DomaB, AppCD, 9>>, <<DomaB, AppCD, 0>>}

MatchQueries ==
    {[accountID |-> acc, domain |-> e[1], appBundle |-> e[2], eventMediaTypes |-> e[3]] :
        acc \in Accounts, e \in MatchEvents}

----------------------------------------------------------------------------
(* storedFilter.matches *)

matches(f, domain, appBundle, eventMediaTypes) ==
    IF f.req.Domain # <<>> /\ ~EqualFold(f.req.Domain, domain) THEN FALSE
    ELSE IF f.req.AppBundle # <<>> /\ ~EqualFold(f.req.AppBundle, appBundle) THEN FALSE
    ELSE IF f.mediaTypeSet # 0 /\ ~Intersects(f.mediaTypeSet, eventMediaTypes) THEN FALSE
    ELSE TRUE

----------------------------------------------------------------------------
(* FilterRegistry *)

IsInvalidAccountUnchecked(filter) == filter = Nil \/ filter.SessionId = 0

\* the validation of Register
IsInvalid(filter) ==
    filter = Nil \/ filter.SessionId = 0 \/ filter.AccountId = <<>>

ClampExpiryZeroKept(exp, t) ==
    LET maxExpiration == t + MaxTTL
    IN  IF exp > maxExpiration THEN maxExpiration ELSE exp

\* the expiry Register writes back into the request, with the clock read as t
ClampExpiry(exp, t) ==
    LET maxExpiration == t + MaxTTL
    IN  IF exp = 0 \/ exp > maxExpiration THEN maxExpiration ELSE exp

AtCapacityKnownKeyOnly(exists) == exists /\ count >= MaxFilters
AtCapacityAnyKey(exists) == count >= MaxFilters
AtCapacityOffByOne(exists) == ~exists /\ count > MaxFilters

AtCapacityOfLive(exists) ==
    /\ ~exists
    /\ Cardinality({k \in StoredKeys :
                       ~(/\ Stored(k[1], k[2]).req.ExpiresAtMs > 0
                         /\ Stored(k[1], k[2]).req.ExpiresAtMs < now)}) >= MaxFilters

\* the capacity check of Register
AtCapacity(exists) == ~exists /\ count >= MaxFilters

NewStoredFilterPartitionDropped(filter) ==
    [req |-> [filter EXCEPT !.PartitionId = 0],
     mediaTypeSet |-> ToMediaTypeSet(filter.MediaTypes)]

\* the storedFilter Register builds
NewStoredFilter(filter) ==
    [req |-> filter, mediaTypeSet |-> ToMediaTypeSet(filter.MediaTypes)]

CountAfterStoreAlways(exists) == count + 1

\* the count after Register has stored the filter
CountAfterStore(exists) == IF exists THEN count ELSE count + 1

\* Register(filter), time.Now() returning t
Register(filter, t) ==
    IF IsInvalid(filter)
    THEN /\ last' = [op |-> "Register", err |-> "ErrInvalidFilterRequest",
                     filter |-> filter, t |-> t, exists |-> FALSE, metrics |-> {}]
         /\ UNCHANGED <<byAccount, count, activeFilters>>
    ELSE LET clamped == [filter EXCEPT !.ExpiresAtMs = ClampExpiry(filter.ExpiresAtMs, t)]
             acc == filter.AccountId
             sid == filter.SessionId
             exists == HasKey(acc, sid)
             accountFilters == IF acc \in DOMAIN byAccount THEN byAccount[acc] ELSE EmptyMap
         IN  IF AtCapacity(exists)
             THEN /\ last' = [op |-> "Register", err |-> "ErrRegistryAtCapacity",
                              filter |-> filter, t |-> t, exists |-> exists,
                              metrics |-> {}]
                  /\ UNCHANGED <<byAccount, count, activeFilters>>
             ELSE /\ byAccount' = MapPut(byAccount, acc,
                                         MapPut(accountFilters, sid, NewStoredFilter(clamped)))
                  /\ count' = CountAfterStore(exists)
                  /\ activeFilters' = count'
                  /\ last' = [op |-> "Register", err |-> "nil",
                              filter |-> filter, t |-> t, exists |-> exists,
                              metrics |-> IF exists THEN {}
                                          ELSE {[name |-> "filter_registered",
                                                 label |-> acc, n |-> 1]}]

UnregisterAnyAccount(m, c, g, sessionId, accountId) ==
    LET holders == {a \in DOMAIN m : sessionId \in DOMAIN m[a]}
    IN  IF holders = {}
        THEN [byAccount |-> m, count |-> c, activeFilters |-> g, removed |-> FALSE]
        ELSE LET a == IF accountId \in holders THEN accountId
                      ELSE CHOOSE x \in holders : TRUE
                 rest == MapDel(m[a], sessionId)
             IN  [byAccount |-> IF DOMAIN rest = {} THEN MapDel(m, a)
                                ELSE MapPut(m, a, rest),
                  count |-> c - 1, activeFilters |-> c - 1, removed |-> TRUE]

\* the map, the count and the gauge Unregister leaves, given those it finds
UnregisterResult(m, c, g, sessionId, accountId) ==
    IF accountId \notin DOMAIN m
    THEN [byAccount |-> m, count |-> c, activeFilters |-> g, removed |-> FALSE]
    ELSE LET accountFilters == m[accountId]
         IN  IF sessionId \in DOMAIN accountFilters
             THEN LET rest == MapDel(accountFilters, sessionId)
                  IN  [byAccount |-> IF DOMAIN rest = {}
                                     THEN MapDel(m, accountId)
                                     ELSE MapPut(m, accountId, rest),
                       count |-> c - 1, activeFilters |-> c - 1, removed |-> TRUE]
             ELSE [byAccount |-> m, count |-> c, activeFilters |-> g, removed |-> FALSE]

Unregister(sessionId, accountId) ==
    LET r == UnregisterResult(byAccount, count, activeFilters, sessionId, accountId)
    IN  /\ byAccount' = r.byAccount
        /\ count' = r.count
        /\ activeFilters' = r.activeFilters
        /\ last' = [op |-> "Unregister", acc |-> accountId, sid |-> sessionId,
                    removed |-> r.removed]

\* the expiry test of the GetMatches loop
SkipExpired(filter, t) == filter.req.ExpiresAtMs > 0 /\ filter.req.ExpiresAtMs < t

\* GetMatches, the map being iterated in the given order of its keys
RECURSIVE GetMatchesLoop(_, _, _, _, _, _)
GetMatchesLoop(order, accountFilters, domain, appBundle, eventMediaTypes, t) ==
    IF order = <<>> THEN <<>>
    ELSE LET filter == accountFilters[Head(order)]
             rest == GetMatchesLoop(Tail(order), accountFilters, domain, appBundle,
                                    eventMediaTypes, t)
         IN  IF SkipExpired(filter, t) THEN rest
             ELSE IF matches(filter, domain, appBundle, eventMediaTypes)
                  THEN <<filter.req>> \o rest
                  ELSE rest

Orders(S) == {o \in [1..Cardinality(S) -> S] : \A i, j \in DOMAIN o : i # j => o[i] # o[j]}

\* GetMatches on the map m, time.Now() returning t
GetMatchesOn(m, t, order, accountID, domain, appBundle, eventMediaTypes) ==
    IF accountID \notin DOMAIN m THEN <<>>
    ELSE GetMatchesLoop(order, m[accountID], domain, appBundle, eventMediaTypes, t)

GetMatches(order, accountID, domain, appBundle, eventMediaTypes) ==
    GetMatchesOn(byAccount, now, order, accountID, domain, appBundle, eventMediaTypes)

GetMatchesCallSweeping(q) ==
    LET live(a) == {x \in DOMAIN byAccount[a] :
                       ~(/\ byAccount[a][x].req.ExpiresAtMs > 0
                         /\ byAccount[a][x].req.ExpiresAtMs < now)}
        swept == [a \in {x \in DOMAIN byAccount : live(x) # {}} |->
                     [x \in live(a) |-> byAccount[a][x]]]
    IN  /\ \E order \in Orders(IF q.accountID \in DOMAIN swept
                               THEN DOMAIN swept[q.accountID] ELSE {}) :
              last' = [op |-> "GetMatches", q |-> q, t |-> now,
                       result |-> GetMatchesOn(swept, now, order, q.accountID,
                                               q.domain, q.appBundle,
                                               q.eventMediaTypes)]
        /\ byAccount' = swept
        /\ count' = Cardinality(UNION {{<<a, x>> : x \in DOMAIN swept[a]} :
                                        a \in DOMAIN swept})
        /\ UNCHANGED <<now, activeFilters, nonRegistryVars>>

GetMatchesCall(q) ==
    /\ \E order \in Orders(IF q.accountID \in DOMAIN byAccount
                           THEN DOMAIN byAccount[q.accountID] ELSE {}) :
          last' = [op |-> "GetMatches", q |-> q, t |-> now,
                   result |-> GetMatches(order, q.accountID, q.domain, q.appBundle,
                                         q.eventMediaTypes)]
    /\ UNCHANGED <<byAccount, count, now, activeFilters, nonRegistryVars>>

Count == count

\* a call of Count, which reads the counter under the read lock
CountCall ==
    /\ last' = [op |-> "Count", result |-> Count]
    /\ UNCHANGED <<byAccount, count, now, activeFilters, nonRegistryVars>>

SweepExpiredInclusive(filter, t) ==
    filter.req.ExpiresAtMs > 0 /\ filter.req.ExpiresAtMs <= t

\* the expiry test of the cleanupExpired loop
SweepExpired(filter, t) == filter.req.ExpiresAtMs > 0 /\ filter.req.ExpiresAtMs < t

cleanupExpired ==
    LET kept(a) == {s \in DOMAIN byAccount[a] : ~SweepExpired(byAccount[a][s], now)}
        expiredKeys == {k \in StoredKeys : SweepExpired(Stored(k[1], k[2]), now)}
        expiredCount == Cardinality(expiredKeys)
    IN  /\ byAccount' = [a \in {x \in DOMAIN byAccount : kept(x) # {}} |->
                            [s \in kept(a) |-> byAccount[a][s]]]
        /\ count' = IF expiredCount > 0 THEN count - expiredCount ELSE count
        /\ activeFilters' = count'
        /\ last' = [op |-> "cleanupExpired", expired |-> expiredKeys,
                    metrics |-> {[name |-> "filter_expired", label |-> a,
                                  n |-> Cardinality({k \in expiredKeys : k[1] = a})] :
                                 a \in {k[1] : k \in expiredKeys}}]
        /\ UNCHANGED <<now, nonRegistryVars>>

\* the clock advances
Tick ==
    /\ now < MaxTime
    /\ now' = now + 1
    /\ last' = [op |-> "Tick"]
    /\ UNCHANGED <<byAccount, count, activeFilters, nonRegistryVars>>

RegisterCall ==
    \E filter \in FilterInputs :
        /\ Register(filter, now)
        /\ UNCHANGED <<now, nonRegistryVars>>

UnregisterCall ==
    \E sessionId \in Sessions, accountId \in Accounts :
        /\ Unregister(sessionId, accountId)
        /\ UNCHANGED <<now, nonRegistryVars>>

GetMatchesAny == \E q \in Queries : GetMatchesCall(q)

RegisterMatchCall ==
    \E filter \in MatchFilterInputs :
        /\ Register(filter, now)
        /\ UNCHANGED <<now, nonRegistryVars>>

GetMatchesMatch == \E q \in MatchQueries : GetMatchesCall(q)

\* NewFilterRegistry
Init ==
    /\ byAccount = EmptyMap
    /\ count = 0
    /\ now = 0
    /\ activeFilters = 0
    /\ last = [op |-> "NewFilterRegistry"]
    /\ MediaIdle
    /\ ConsumerIdle
    /\ LoopIdle
    /\ SinkIdle
    /\ ModuleIdle

\* the registry under requests that differ in expiry and partition
Next ==
    \/ RegisterCall
    \/ UnregisterCall
    \/ GetMatchesAny
    \/ CountCall
    \/ cleanupExpired
    \/ Tick

Spec == Init /\ [][Next]_vars

\* the registry under requests that differ in domain, bundle and media types
NextMatch ==
    \/ RegisterMatchCall
    \/ UnregisterCall
    \/ GetMatchesMatch
    \/ cleanupExpired
    \/ Tick

SpecMatch == Init /\ [][NextMatch]_vars

----------------------------------------------------------------------------
(* Properties of the registry *)

Elements(seq) == {seq[i] : i \in DOMAIN seq}
NoDuplicates(seq) == \A i, j \in DOMAIN seq : seq[i] = seq[j] => i = j

LastIsRegister == last.op = "Register"
LastKey == <<last.filter.AccountId, last.filter.SessionId>>

\* a request Register must reject: null, zero session or empty account
Rejectable(f) ==
    \/ "isNil" \in DOMAIN f
    \/ f.SessionId = 0
    \/ Len(f.AccountId) = 0

\* C1: whatever Register, Unregister and cleanupExpired calls have run, Count() is
\* at most max_filters.
C1_CountWithinMax == Count <= MaxFilters

C1_Witness ==
    /\ LastIsRegister
    /\ last.err = "ErrRegistryAtCapacity"
    /\ Count = MaxFilters

\* C2: Register of a valid filter whose key is already stored succeeds, also at
\* Count() = max_filters, leaves Count() unchanged and replaces the entry: every other
\* key keeps its filter, every GetMatches result holds at most one filter per session,
\* holds under the replaced session nothing but the second filter, and holds the second
\* filter whenever that filter is not skipped as expired and matches the query.
C2_ReplaceInPlace ==
    [][(LastIsRegister' /\ ~Rejectable(last'.filter)
            /\ HasKey(last'.filter.AccountId, last'.filter.SessionId))
        => LET f == last'.filter
               acc == f.AccountId
               sid == f.SessionId
               second == [f EXCEPT !.ExpiresAtMs =
                             IF f.ExpiresAtMs = 0 \/ f.ExpiresAtMs > now + MaxTTL
                             THEN now + MaxTTL ELSE f.ExpiresAtMs]
               results(d, b, M) ==
                   {GetMatchesOn(byAccount', now', o, acc, d, b, M) :
                        o \in Orders(DOMAIN byAccount[acc])}
           IN  /\ last'.err = "nil"
               /\ count' = count
               /\ StoredKeys' = StoredKeys
               /\ \A k \in StoredKeys \ {<<acc, sid>>} :
                      byAccount'[k[1]][k[2]] = Stored(k[1], k[2])
               /\ byAccount'[acc][sid].req = second
               /\ \A q \in Queries :
                    \A r \in results(q.domain, q.appBundle, q.eventMediaTypes) :
                      /\ \A i, j \in DOMAIN r :
                            r[i].SessionId = r[j].SessionId => i = j
                      /\ \A i \in DOMAIN r : r[i].SessionId = sid => r[i] = second
               /\ \A r \in results(second.Domain, second.AppBundle, 15) :
                      (second.ExpiresAtMs >= now \/ second.ExpiresAtMs <= 0)
                          => \E i \in DOMAIN r : r[i] = second]_vars

C2_Witness ==
    /\ LastIsRegister
    /\ last.err = "nil"
    /\ last.exists
    /\ Count = MaxFilters
    /\ last.filter.PartitionId = 1
    /\ \E o \in Orders(DOMAIN byAccount[last.filter.AccountId]) :
          \E i \in 1..Count :
             LET r == GetMatches(o, last.filter.AccountId, DomaB, <<>>, 0)
             IN  i \in DOMAIN r /\ r[i].PartitionId = 1 /\ r[i].Domain = DomAb

\* C3: Register of a valid filter whose key is not stored, called at
\* Count() = max_filters, returns ErrAtCapacity and leaves the stored filters and
\* Count() as they were.
C3_RejectAtCapacity ==
    [][(LastIsRegister' /\ ~Rejectable(last'.filter)
            /\ ~HasKey(last'.filter.AccountId, last'.filter.SessionId)
            /\ Count = MaxFilters)
        => /\ last'.err = "ErrRegistryAtCapacity"
           /\ byAccount' = byAccount
           /\ Count' = Count]_vars

C3_Witness ==
    /\ LastIsRegister
    /\ last.err = "ErrRegistryAtCapacity"
    /\ ~last.exists
    /\ Cardinality(StoredKeys) = MaxFilters
    /\ LastKey \notin StoredKeys

\* C4: Register of a null filter, of a filter with session_id = 0 or of a filter with
\* an empty account_id returns ErrInvalid and changes nothing: the stored filters,
\* Count() and the gauge stay, and no counter is recorded.
C4_InvalidNoEffect ==
    [][(LastIsRegister' /\ Rejectable(last'.filter))
        => /\ last'.err = "ErrInvalidFilterRequest"
           /\ byAccount' = byAccount
           /\ Count' = Count
           /\ activeFilters' = activeFilters
           /\ last'.metrics = {}]_vars

C4_Witness ==
    /\ LastIsRegister
    /\ last.err = "ErrInvalidFilterRequest"
    /\ last.filter # Nil
    /\ last.filter.AccountId = <<>>
    /\ Count > 0

\* C5: every filter GetMatches returns has expires_at_ms = 0 or expires_at_ms
\* greater than the time that call read, whatever expires_at_ms values are stored.
C5_ReturnedUnexpired ==
    last.op = "GetMatches"
        => \A i \in DOMAIN last.result :
              last.result[i].ExpiresAtMs = 0 \/ last.result[i].ExpiresAtMs > last.t

\* C6: after a successful Register at time t, a requested expires_at_ms of 0 or above
\* t + max_TTL is stored as t + max_TTL, a requested value in (0, t + max_TTL] is
\* stored as requested, and the stored value is never above t + max_TTL.
C6_ExpiryClamped ==
    (LastIsRegister /\ last.err = "nil")
        => LET requested == last.filter.ExpiresAtMs
               limit == last.t + MaxTTL
               stored == Stored(LastKey[1], LastKey[2]).req.ExpiresAtMs
           IN  /\ (requested = 0 \/ requested > limit) => stored = limit
               /\ (0 < requested /\ requested <= limit) => stored = requested
               /\ stored <= limit

C6_Witness ==
    /\ LastIsRegister
    /\ last.err = "nil"
    /\ last.t > 0
    /\ last.filter.ExpiresAtMs = 0
    /\ Stored(LastKey[1], LastKey[2]).req.ExpiresAtMs = last.t + MaxTTL
    /\ \E k \in StoredKeys :
          /\ k # LastKey
          /\ Stored(k[1], k[2]).req.ExpiresAtMs <= MaxTTL
          /\ Stored(k[1], k[2]).req.ExpiresAtMs > 0

\* C7: Unregister(session_id, account_id) removes the entry stored under
\* (account_id, session_id) and nothing else and lowers Count() by 1 when that entry
\* exists; it changes nothing when the entry does not exist, also when the session is
\* stored under another account; a second call with the same arguments changes nothing.
C7_UnregisterExact ==
    [][last'.op = "Unregister"
        => LET key == <<last'.acc, last'.sid>>
               again == UnregisterResult(byAccount', count', activeFilters',
                                         last'.sid, last'.acc)
           IN  /\ IF key \in StoredKeys
                  THEN /\ StoredKeys' = StoredKeys \ {key}
                       /\ \A k \in StoredKeys \ {key} :
                             byAccount'[k[1]][k[2]] = Stored(k[1], k[2])
                       /\ Count' = Count - 1
                  ELSE /\ byAccount' = byAccount
                       /\ Count' = Count
               /\ again.byAccount = byAccount'
               /\ again.count = count'
               /\ ~again.removed]_vars

\* an Unregister that removed an entry while the other account keeps the same session
C7_Witness ==
    /\ last.op = "Unregister"
    /\ last.removed
    /\ Count = MaxFilters - 1
    /\ \E a \in Accounts \ {last.acc} : HasKey(a, last.sid)

ToLowerASCII(str) ==
    [i \in DOMAIN str |-> IF 65 <= str[i] /\ str[i] <= 90 THEN str[i] + 32 ELSE str[i]]
EqualIgnoringCase(a, b) == ToLowerASCII(a) = ToLowerASCII(b)

Bit(x, k) == (x \div 2 ^ k) % 2
SharesBit(a, b) == \E k \in 0..7 : Bit(a, k) = 1 /\ Bit(b, k) = 1

\* the bitmask of a media_types list: BANNER=1, VIDEO=2, AUDIO=4, NATIVE=8
MaskOfTypes(types) ==
    LET has(t) == \E i \in DOMAIN types : types[i] = t
    IN  (IF has("MEDIA_TYPE_BANNER") THEN 1 ELSE 0)
        + (IF has("MEDIA_TYPE_VIDEO") THEN 2 ELSE 0)
        + (IF has("MEDIA_TYPE_AUDIO") THEN 4 ELSE 0)
        + (IF has("MEDIA_TYPE_NATIVE") THEN 8 ELSE 0)

\* the filters GetMatches(acc, d, b, M) is to return at time t; a stored filter counts
\* as expired as the sweep counts it: 0 < expires_at_ms < t
ExpectedMatches(acc, d, b, M, t) ==
    IF acc \notin DOMAIN byAccount THEN {}
    ELSE {byAccount[acc][sid].req : sid \in
            {x \in DOMAIN byAccount[acc] :
                LET F == byAccount[acc][x]
                IN  /\ ~(0 < F.req.ExpiresAtMs /\ F.req.ExpiresAtMs < t)
                    /\ (Len(F.req.Domain) = 0 \/ EqualIgnoringCase(F.req.Domain, d))
                    /\ (Len(F.req.AppBundle) = 0 \/ EqualIgnoringCase(F.req.AppBundle, b))
                    /\ (F.mediaTypeSet = 0 \/ SharesBit(F.mediaTypeSet, M))}}

\* C8: GetMatches(account, d, b, M) returns, each once, the non-expired filters F
\* stored under that account with (F.domain empty or equal to d ignoring case) and
\* (F.app_bundle empty or equal to b ignoring case) and (F.mask = 0 or F.mask & M # 0),
\* and no other filter; a filter with a domain never matches an event without domain
\* and a filter with a mask never matches event mask 0.
C8_MatchesExact ==
    last.op = "GetMatches"
        => LET q == last.q
               expected == ExpectedMatches(q.accountID, q.domain, q.appBundle,
                                           q.eventMediaTypes, last.t)
           IN  /\ Elements(last.result) = expected
               /\ Len(last.result) = Cardinality(expected)
               /\ \A i \in DOMAIN last.result :
                     /\ last.result[i].AccountId = q.accountID
                     /\ Len(last.result[i].Domain) > 0 => Len(q.domain) > 0
                     /\ MaskOfTypes(last.result[i].MediaTypes) # 0
                            => q.eventMediaTypes # 0

\* a query in another letter case that returns one of two stored filters
C8_Witness ==
    /\ last.op = "GetMatches"
    /\ last.q.domain = DomaB
    /\ last.q.appBundle = AppCD
    /\ Len(last.result) = 1
    /\ last.result[1].Domain = DomAb
    /\ last.result[1].AppBundle = AppCd
    /\ Cardinality(DOMAIN byAccount[last.q.accountID]) = 2
    /\ Count = 2

\* C9: every stored filter's media_type_mask is the bitmask (BANNER=1, VIDEO=2,
\* AUDIO=4, NATIVE=8) of the media_types stored under that key, also after a
\* replacement and for lists with duplicates or unknown values.
C9_MaskConsistent ==
    \A k \in StoredKeys :
        Stored(k[1], k[2]).mediaTypeSet = MaskOfTypes(Stored(k[1], k[2]).req.MediaTypes)

C9_Witness ==
    /\ LastIsRegister
    /\ last.err = "nil"
    /\ last.exists
    /\ last.filter.MediaTypes = <<"MEDIA_TYPE_NATIVE", "MEDIA_TYPE_UNSPECIFIED",
                                  "MEDIA_TYPE_7", "MEDIA_TYPE_NATIVE">>
    /\ Stored(LastKey[1], LastKey[2]).mediaTypeSet = MediaTypeNativeBit

\* C11: one run of cleanupExpired at time now deletes exactly the stored entries with
\* 0 < expires_at_ms < now, keeps every other entry unchanged, lowers Count() by the
\* number of entries deleted and leaves no account with an empty inner map.
C11_SweepExact ==
    [][last'.op = "cleanupExpired"
        => LET due == {k \in StoredKeys :
                          /\ 0 < Stored(k[1], k[2]).req.ExpiresAtMs
                          /\ Stored(k[1], k[2]).req.ExpiresAtMs < now}
           IN  /\ StoredKeys' = StoredKeys \ due
               /\ \A k \in StoredKeys \ due : byAccount'[k[1]][k[2]] = Stored(k[1], k[2])
               /\ Count' = Count - Cardinality(due)
               /\ \A a \in DOMAIN byAccount' : DOMAIN byAccount'[a] # {}
               /\ DOMAIN byAccount' = {k[1] : k \in StoredKeys \ due}]_vars

\* a sweep that deleted the only filter of one account and kept a filter that expires
\* at the very instant of the sweep
C11_Witness ==
    /\ last.op = "cleanupExpired"
    /\ Cardinality(last.expired) = 1
    /\ \A k \in last.expired : k[1] \notin DOMAIN byAccount
    /\ \E k \in StoredKeys : Stored(k[1], k[2]).req.ExpiresAtMs = now

PartitionOf(m, k) == m[k[1]][k[2]].req.PartitionId

\* C12 as stated: the partition_id stored under a key never changes while the key
\* stays in the registry, also when a later CREATE for the key carries another one.
C12_PartitionImmutable ==
    [][\A k \in StoredKeys \cap StoredKeys' :
          PartitionOf(byAccount', k) = PartitionOf(byAccount, k)]_vars

\* C12 amended: the partition_id stored under a key changes only by a successful
\* Register for that key, which stores the partition_id of its request; every other
\* operation, and a rejected Register, leaves it as it was.
C12_PartitionFollowsRegister ==
    [][\A k \in StoredKeys \cap StoredKeys' :
          IF LastIsRegister' /\ last'.err = "nil" /\ LastKey' = k
          THEN PartitionOf(byAccount', k) = last'.filter.PartitionId
          ELSE PartitionOf(byAccount', k) = PartitionOf(byAccount, k)]_vars

\* a replacing Register whose request carries partition 1, stored under its key while
\* the other stored key holds partition 0
C12_Witness ==
    /\ LastIsRegister
    /\ last.err = "nil"
    /\ last.exists
    /\ last.filter.PartitionId = 1
    /\ PartitionOf(byAccount, LastKey) = 1
    /\ \E k \in StoredKeys \ {LastKey} : PartitionOf(byAccount, k) = 0


----------------------------------------------------------------------------
(* The media-type conversions applied to drawn inputs *)

MediaTypeValues ==
    {"MEDIA_TYPE_UNSPECIFIED", "MEDIA_TYPE_BANNER", "MEDIA_TYPE_VIDEO",
     "MEDIA_TYPE_AUDIO", "MEDIA_TYPE_NATIVE"}

TypeLists == UNION {[1..n -> MediaTypeValues] : n \in 0..MaxTypes}

InitMedia ==
    /\ byAccount = EmptyMap
    /\ count = 0
    /\ now = 0
    /\ activeFilters = 0
    /\ last = [op |-> "NewFilterRegistry"]
    /\ \/ /\ mtIn \in TypeLists
          /\ mtTypes = mtIn
          /\ mtSet = 0
          /\ mtPc = "types"
       \/ /\ mtIn \in 0..255
          /\ mtTypes = <<>>
          /\ mtSet = mtIn
          /\ mtPc = "set"
    /\ ConsumerIdle
    /\ LoopIdle
    /\ SinkIdle
    /\ ModuleIdle

\* ToMediaTypeSet applied to the drawn list
TypesToSet ==
    /\ mtPc = "types"
    /\ mtSet' = ToMediaTypeSet(mtTypes)
    /\ mtPc' = "types-set"
    /\ UNCHANGED <<mtIn, mtTypes, nonMediaVars>>

\* ToSlice applied to the set computed from the drawn list
SetToSlice ==
    /\ mtPc = "types-set"
    /\ mtTypes' = ToSlice(mtSet)
    /\ mtPc' = "types-set-slice"
    /\ UNCHANGED <<mtIn, mtSet, nonMediaVars>>

\* ToSlice applied to the drawn set
MaskToSlice ==
    /\ mtPc = "set"
    /\ mtTypes' = ToSlice(mtSet)
    /\ mtPc' = "set-slice"
    /\ UNCHANGED <<mtIn, mtSet, nonMediaVars>>

\* ToMediaTypeSet applied to the slice computed from the drawn set
SliceToSet ==
    /\ mtPc = "set-slice"
    /\ mtSet' = ToMediaTypeSet(mtTypes)
    /\ mtPc' = "set-slice-set"
    /\ UNCHANGED <<mtIn, mtTypes, nonMediaVars>>

NextMedia ==
    \/ TypesToSet
    \/ SetToSlice
    \/ MaskToSlice
    \/ SliceToSet

SpecMedia == InitMedia /\ [][NextMedia]_vars

----------------------------------------------------------------------------
(* Properties of the media-type conversions *)

KnownMediaTypes ==
    {"MEDIA_TYPE_BANNER", "MEDIA_TYPE_VIDEO", "MEDIA_TYPE_AUDIO", "MEDIA_TYPE_NATIVE"}

\* C10: ToSlice(ToMediaTypeSet(S)) holds the elements of S among BANNER, VIDEO, AUDIO
\* and NATIVE, each once, and ToMediaTypeSet(ToSlice(m)) = m for every 4-bit mask m.
C10_MediaRoundTrip ==
    /\ mtPc = "types-set-slice"
          => /\ Elements(mtTypes) = Elements(mtIn) \cap KnownMediaTypes
             /\ NoDuplicates(mtTypes)
    /\ (mtPc = "set-slice-set" /\ mtIn < 16) => mtSet = mtIn

C10_Witness ==
    /\ mtPc = "types-set-slice"
    /\ mtIn = <<"MEDIA_TYPE_NATIVE", "MEDIA_TYPE_AUDIO", "MEDIA_TYPE_BANNER">>
    /\ mtTypes = <<"MEDIA_TYPE_BANNER", "MEDIA_TYPE_AUDIO", "MEDIA_TYPE_NATIVE">>


----------------------------------------------------------------------------
(* The filter consumer: ConsumeClaim and processMessage *)

MaxMsgs == 3        \* messages published to the partition
MaxBacklog == 2     \* messages waiting in claim.Messages() at one time

FilterActionCreate == 0
FilterActionRemove == 1

ZeroFilter == Filter(0, 0, <<>>, <<>>, <<>>, <<>>, 0)

\* a message body: the fields written on the wire, in order, or bytes that are not an
\* encoding of AuctionFilterRequest
Body(fields) == [wellFormed |-> TRUE, fields |-> fields]
Garbage == [wellFormed |-> FALSE, fields |-> <<>>]

RECURSIVE SetFields(_, _)
SetFields(filter, fields) ==
    IF fields = <<>> THEN filter
    ELSE SetFields([filter EXCEPT ![Head(fields)[1]] = Head(fields)[2]], Tail(fields))

UnmarshalLenient(value) == [err |-> FALSE, filter |-> SetFields(ZeroFilter, value.fields)]

\* proto.Unmarshal(msg.Value, filter) into a fresh AuctionFilterRequest: a field that
\* is not on the wire keeps its zero value, a field written twice keeps the last value
Unmarshal(value) ==
    IF value.wellFormed
    THEN [err |-> FALSE, filter |-> SetFields(ZeroFilter, value.fields)]
    ELSE [err |-> TRUE, filter |-> ZeroFilter]

ActionOfKeyLastByte(key) == IF Len(key) > 0 THEN key[Len(key)] ELSE FilterActionCreate

\* the action byte processMessage reads from the message key
ActionOfKey(key) == IF Len(key) > 0 THEN key[1] ELSE FilterActionCreate

BodyA1 == Body(<<<<"SessionId", 1>>, <<"AccountId", AcctLower>>>>)
BodyA1Routed ==
    Body(<<<<"SessionId", 2>>, <<"AccountId", AcctLower>>, <<"PartitionId", 1>>,
           <<"ExpiresAtMs", 1>>, <<"SessionId", 1>>>>)
BodyA2 == Body(<<<<"AccountId", AcctLower>>, <<"SessionId", 2>>>>)
BodyUpperA1 == Body(<<<<"SessionId", 1>>, <<"AccountId", AcctUpper>>>>)

\* the messages of the filter topic: key bytes and body
FilterMessages ==
    {[key |-> <<>>, value |-> BodyA1],
     [key |-> <<0>>, value |-> BodyA1Routed],
     [key |-> <<99>>, value |-> BodyA2],
     [key |-> <<0, 1>>, value |-> BodyUpperA1],
     [key |-> <<1>>, value |-> BodyA1],
     [key |-> <<1, 0>>, value |-> BodyA2],
     [key |-> <<>>, value |-> Garbage],
     [key |-> <<1>>, value |-> Garbage],
     [key |-> <<>>, value |-> Body(<<>>)]}

\* what processMessage did with msg: the registry calls it made and the errors it
\* recorded through RecordAuctionAuditError
Handled(msg, calls, errors) ==
    [op |-> "processMessage", msg |-> msg, countBefore |-> count, calls |-> calls,
     errors |-> errors]

processMessage(msg) ==
    LET d == Unmarshal(msg.value)
    IN  IF d.err
        THEN /\ cur' = Handled(msg, <<>>, <<"consume">>)
             /\ UNCHANGED <<byAccount, count, activeFilters, last>>
        ELSE IF ActionOfKey(msg.key) = FilterActionRemove
             THEN /\ Unregister(d.filter.SessionId, d.filter.AccountId)
                  /\ cur' = Handled(msg, <<"Unregister">>, <<>>)
             ELSE /\ Register(d.filter, now)
                  /\ cur' = Handled(msg, <<"Register">>, <<>>)

\* the broker appends a message to the partition and the claim buffers it
Publish ==
    /\ claimOpen
    /\ nextOffset < MaxMsgs
    /\ Len(claimQ) < MaxBacklog
    /\ \E m \in FilterMessages :
          claimQ' = Append(claimQ, [offset |-> nextOffset, key |-> m.key,
                                    value |-> m.value])
    /\ nextOffset' = nextOffset + 1
    /\ UNCHANGED <<registryVars, asideConsumer, claimOpen, sessionDone, cpc, cur,
                   marked>>

ReceiveNewest(q) == [msg |-> q[Len(q)], rest |-> SubSeq(q, 1, Len(q) - 1)]

\* the receive from the channel claim.Messages()
Receive(q) == [msg |-> Head(q), rest |-> Tail(q)]

AfterProcessStopOnReject(err) == IF err = "nil" THEN "mark" ELSE "returned"

\* where ConsumeClaim goes after processMessage: always on to session.MarkMessage
AfterProcess(err) == "mark"

\* ConsumeClaim receives a message and processes it
ReceiveAndProcess ==
    /\ cpc = "recv"
    /\ claimQ # <<>>
    /\ LET r == Receive(claimQ)
       IN  /\ processMessage(r.msg)
           /\ claimQ' = r.rest
    /\ cpc' = AfterProcess(IF cur'.calls = <<"Register">> THEN last'.err
                           ELSE IF cur'.errors # <<>> THEN "decode" ELSE "nil")
    /\ UNCHANGED <<now, asideConsumer, claimOpen, sessionDone, marked, nextOffset>>

\* session.MarkMessage(msg, "")
MarkMessage ==
    /\ cpc = "mark"
    /\ marked' = Append(marked, cur.msg.offset)
    /\ cpc' = "recv"
    /\ UNCHANGED <<registryVars, asideConsumer, claimQ, claimOpen, sessionDone, cur,
                   nextOffset>>

\* the claim ends: the channel is closed, what it buffered can still be received
CloseClaim ==
    /\ claimOpen
    /\ claimOpen' = FALSE
    /\ UNCHANGED <<registryVars, asideConsumer, claimQ, sessionDone, cpc, cur,
                   marked, nextOffset>>

\* the session context is cancelled
CancelSession ==
    /\ ~sessionDone
    /\ sessionDone' = TRUE
    /\ UNCHANGED <<registryVars, asideConsumer, claimQ, claimOpen, cpc, cur,
                   marked, nextOffset>>

\* ConsumeClaim returns nil: the channel is closed and drained, or the select took
\* the done context
ReturnFromClaim ==
    /\ cpc = "recv"
    /\ sessionDone \/ (~claimOpen /\ claimQ = <<>>)
    /\ cpc' = "returned"
    /\ UNCHANGED <<registryVars, asideConsumer, claimQ, claimOpen, sessionDone, cur,
                   marked, nextOffset>>

\* a registry and a handler in ConsumeClaim, the clock at 0 or late enough for a
\* request to arrive already expired
InitConsumer ==
    /\ byAccount = EmptyMap
    /\ count = 0
    /\ now \in {0, MaxTime}
    /\ activeFilters = 0
    /\ last = [op |-> "NewFilterRegistry"]
    /\ MediaIdle
    /\ LoopIdle
    /\ SinkIdle
    /\ ModuleIdle
    /\ claimQ = <<>>
    /\ claimOpen = TRUE
    /\ sessionDone = FALSE
    /\ cpc = "recv"
    /\ cur = [op |-> "none"]
    /\ marked = <<>>
    /\ nextOffset = 0

NextConsumer ==
    \/ Publish
    \/ ReceiveAndProcess
    \/ MarkMessage
    \/ CloseClaim
    \/ CancelSession
    \/ ReturnFromClaim
    \/ cleanupExpired

SpecConsumer == InitConsumer /\ [][NextConsumer]_vars

----------------------------------------------------------------------------
(* Properties of the filter consumer *)

\* the value of a field of a body: what was written last, the zero value if absent
WireField(fields, name, zero) ==
    LET at == {i \in DOMAIN fields : fields[i][1] = name}
    IN  IF at = {} THEN zero
        ELSE fields[CHOOSE i \in at : \A j \in at : j <= i][2]

WireFilter(value) ==
    Filter(WireField(value.fields, "SessionId", 0),
           WireField(value.fields, "PartitionId", 0),
           WireField(value.fields, "AccountId", <<>>),
           WireField(value.fields, "Domain", <<>>),
           WireField(value.fields, "AppBundle", <<>>),
           WireField(value.fields, "MediaTypes", <<>>),
           WireField(value.fields, "ExpiresAtMs", 0))

IsRemoveKey(key) == Len(key) >= 1 /\ key[1] = 1

\* this step is processMessage
ProcessStep == cur' # cur /\ cur'.op = "processMessage"

\* this step processes a decodable message by the one registry call its key selects
DispatchedByKey ==
    (ProcessStep /\ cur'.msg.value.wellFormed)
        => LET m == cur'.msg
               f == WireFilter(m.value)
           IN  IF IsRemoveKey(m.key)
               THEN /\ cur'.calls = <<"Unregister">>
                    /\ last' = [op |-> "Unregister", acc |-> f.AccountId,
                                sid |-> f.SessionId,
                                removed |-> HasKey(f.AccountId, f.SessionId)]
               ELSE /\ cur'.calls = <<"Register">>
                    /\ last'.op = "Register"
                    /\ last'.filter = f
                    /\ last'.t = now

\* this step processes the REMOVE of the key whose CREATE was processed just before,
\* no other registry call in between
RemoveRightAfterCreate ==
    /\ ProcessStep
    /\ cur.op = "processMessage"
    /\ cur.calls = <<"Register">>
    /\ last.op = "Register"
    /\ cur'.calls = <<"Unregister">>
    /\ last'.acc = last.filter.AccountId
    /\ last'.sid = last.filter.SessionId

\* C13 as stated: a decodable message is dispatched by its first key byte, and a
\* CREATE followed by the REMOVE of the same key leaves Count() as before the CREATE.
C13_CreateRemoveRestoresCount ==
    [][/\ DispatchedByKey
       /\ RemoveRightAfterCreate => count' = cur.countBefore]_vars

\* C13 amended: a decodable message leads to Unregister(session_id, account_id) and
\* nothing else when its first key byte is 1, to Register(filter) and nothing else
\* otherwise; a CREATE followed by the REMOVE of the same key leaves Count() as before
\* the CREATE when the key was not stored before the CREATE, and one lower when it was.
C13_DispatchByKey ==
    [][/\ DispatchedByKey
       /\ RemoveRightAfterCreate
            => count' = IF last.exists THEN cur.countBefore - 1 ELSE cur.countBefore]_vars

\* the REMOVE with the two-byte key 01 00 took out the filter created just before
C13_Witness ==
    /\ cur.op = "processMessage"
    /\ cur.msg.key = <<1, 0>>
    /\ cur.calls = <<"Unregister">>
    /\ last.op = "Unregister"
    /\ last.removed
    /\ cur.countBefore = 1
    /\ Count = 0

\* the offsets 0 .. n-1 in order
FirstOffsets(n) == [i \in 1..n |-> i - 1]

\* C14: every message received from the claim is marked exactly once, after it was
\* processed and before the next one is processed, whatever the outcome; ConsumeClaim
\* goes on to the mark and to the next message after every outcome, and returns only
\* with every processed message marked.
C14_MarkedOnceInOrder ==
    /\ NoDuplicates(marked)
    /\ cur.op = "none" => marked = <<>> /\ cpc # "mark"
    /\ cur.op = "processMessage"
         => /\ marked = FirstOffsets(IF cpc = "mark" THEN cur.msg.offset
                                     ELSE cur.msg.offset + 1)
            /\ \A i \in DOMAIN claimQ : claimQ[i].offset > cur.msg.offset
    /\ cpc = "mark" => ENABLED MarkMessage
    /\ (cpc = "recv" /\ claimQ # <<>>) => ENABLED ReceiveAndProcess
    /\ cpc = "returned" => sessionDone \/ (~claimOpen /\ claimQ = <<>>)

\* an undecodable message was processed and marked right after a CREATE that Register
\* rejected as invalid
C14_Witness ==
    /\ last.op = "Register"
    /\ last.err = "ErrInvalidFilterRequest"
    /\ cur.op = "processMessage"
    /\ cur.errors = <<"consume">>
    /\ cur.msg.offset >= 1
    /\ marked = FirstOffsets(cur.msg.offset + 1)

\* C15: a message whose body cannot be decoded makes the consumer record exactly one
\* consume error and call neither Register nor Unregister, and leaves the stored
\* filters and Count() unchanged, whatever its key.
C15_DecodeFailureDropped ==
    [][(ProcessStep /\ ~cur'.msg.value.wellFormed)
        => /\ cur'.errors = <<"consume">>
           /\ cur'.calls = <<>>
           /\ byAccount' = byAccount
           /\ Count' = Count
           /\ activeFilters' = activeFilters
           /\ last' = last]_vars

\* an undecodable message with the REMOVE key was dropped while a filter is stored
C15_Witness ==
    /\ cur.op = "processMessage"
    /\ cur.msg.value = Garbage
    /\ cur.msg.key = <<1>>
    /\ cur.errors = <<"consume">>
    /\ Count >= 1

\* C17: the messages of one partition are applied to the registry in offset order, one
\* at a time: each processed message has a higher offset than every message processed
\* before it and a lower one than every message still waiting; right after a message
\* for (account_id, session_id) is processed, that filter is stored iff the message
\* was a CREATE that Register accepted; and between two messages the consumer changes
\* no stored filter.
C17_AppliedInOffsetOrder ==
    [][/\ ProcessStep
            => /\ cur.op = "processMessage" => cur'.msg.offset > cur.msg.offset
               /\ \A i \in DOMAIN claimQ' : claimQ'[i].offset > cur'.msg.offset
               /\ \A i \in DOMAIN claimQ : claimQ[i].offset >= cur'.msg.offset
       /\ (ProcessStep /\ cur'.msg.value.wellFormed)
            => LET f == WireFilter(cur'.msg.value)
               IN  (<<f.AccountId, f.SessionId>> \in StoredKeys')
                       <=> (~IsRemoveKey(cur'.msg.key) /\ last'.err = "nil")
       /\ (~ProcessStep /\ last'.op # "cleanupExpired") => byAccount' = byAccount]_vars

\* the third message of the partition, a REMOVE, took out the filter that an earlier
\* CREATE had stored, and has been marked
C17_Witness ==
    /\ cur.op = "processMessage"
    /\ cur.msg.offset = MaxMsgs - 1
    /\ cur.calls = <<"Unregister">>
    /\ last.op = "Unregister"
    /\ last.removed
    /\ last.acc = AcctLower
    /\ last.sid = 1
    /\ ~HasKey(AcctLower, 1)
    /\ marked = FirstOffsets(MaxMsgs)

----------------------------------------------------------------------------
(* The filter consumer: consumeLoop *)

MaxConsumes == 7    \* calls of consumer.Consume in one run of the loop

maxConsumeRetries == 5
consumeRetryDelay == 5      \* seconds

\* how long a call of Consume may last, in seconds
ConsumeDurations == {0, 1}

AfterSuccessKept(n) == n

\* consecutiveFailures after a Consume that returned nil on a live context
AfterSuccess(n) == 0

ConsumeReturnEveryError(outcome, d) ==
    [outcome |-> outcome, calledAt |-> lnow, returnedAt |-> lnow + d,
     errors |-> IF outcome # "nil" THEN <<"connection">> ELSE <<>>]

ConsumeReturn(outcome, d) ==
    [outcome |-> outcome, calledAt |-> lnow, returnedAt |-> lnow + d,
     errors |-> IF outcome = "error" THEN <<"connection">> ELSE <<>>]

\* Consume returns an error other than ErrClosedConsumerGroup
ConsumeFails(max) ==
    /\ lpc = "consume"
    /\ Len(returns) < max
    /\ \E d \in ConsumeDurations :
          /\ returns' = Append(returns, ConsumeReturn("error", d))
          /\ lnow' = lnow + d
    /\ consecutiveFailures' = consecutiveFailures + 1
    /\ lpc' = IF consecutiveFailures' >= maxConsumeRetries THEN "gaveUp" ELSE "sleeping"
    /\ UNCHANGED <<asideLoop, fcCtxDone>>

\* Consume returns sarama.ErrClosedConsumerGroup
ConsumeClosed(max) ==
    /\ lpc = "consume"
    /\ Len(returns) < max
    /\ \E d \in ConsumeDurations :
          /\ returns' = Append(returns, ConsumeReturn("closed", d))
          /\ lnow' = lnow + d
    /\ lpc' = "closed"
    /\ UNCHANGED <<asideLoop, consecutiveFailures, fcCtxDone>>

\* Consume returns nil
ConsumeSucceeds(max) ==
    /\ lpc = "consume"
    /\ Len(returns) < max
    /\ \E d \in ConsumeDurations :
          /\ returns' = Append(returns, ConsumeReturn("nil", d))
          /\ lnow' = lnow + d
    /\ IF fcCtxDone
       THEN /\ lpc' = "cancelled"
            /\ UNCHANGED consecutiveFailures
       ELSE /\ lpc' = "consume"
            /\ consecutiveFailures' = AfterSuccess(consecutiveFailures)
    /\ UNCHANGED <<asideLoop, fcCtxDone>>

\* time.Sleep(consumeRetryDelay) is over
SleepDone ==
    /\ lpc = "sleeping"
    /\ lnow' = lnow + consumeRetryDelay
    /\ lpc' = "consume"
    /\ UNCHANGED <<asideLoop, consecutiveFailures, returns,
                   fcCtxDone>>

\* fc.cancel()
CancelLoopContext ==
    /\ ~fcCtxDone
    /\ fcCtxDone' = TRUE
    /\ UNCHANGED <<asideLoop, lpc, consecutiveFailures,
                   returns, lnow>>

\* go fc.consumeLoop()
InitLoop ==
    /\ byAccount = EmptyMap
    /\ count = 0
    /\ now = 0
    /\ activeFilters = 0
    /\ last = [op |-> "NewFilterRegistry"]
    /\ MediaIdle
    /\ ConsumerIdle
    /\ SinkIdle
    /\ ModuleIdle
    /\ lpc = "consume"
    /\ consecutiveFailures = 0
    /\ returns = <<>>
    /\ lnow = 0
    /\ fcCtxDone = FALSE

NextLoop ==
    \/ ConsumeFails(MaxConsumes)
    \/ ConsumeClosed(MaxConsumes)
    \/ ConsumeSucceeds(MaxConsumes)
    \/ SleepDone
    \/ CancelLoopContext

SpecLoop == InitLoop /\ [][NextLoop]_vars

----------------------------------------------------------------------------
(* Properties of consumeLoop *)

\* the number of returns up to the n-th that are errors with no other return after them
RECURSIVE FailuresInARow(_)
FailuresInARow(n) ==
    IF n = 0 \/ returns[n].outcome # "error" THEN 0 ELSE 1 + FailuresInARow(n - 1)

\* C16: the loop gives up exactly when Consume has returned a non-fatal error 5 times
\* in a row; after each of the first 4 such returns it calls Consume again 5 seconds
\* later, after a nil return at once; the counter is the number of failures in a row,
\* back at 0 after a nil return, and always in 0..5.
C16_GiveUpAfterFiveInARow ==
    /\ consecutiveFailures \in 0..5
    /\ lpc \in {"consume", "sleeping", "gaveUp"}
         => consecutiveFailures = FailuresInARow(Len(returns))
    /\ lpc = "gaveUp" <=> FailuresInARow(Len(returns)) = 5
    /\ \A n \in 1..Len(returns) - 1 :
          /\ FailuresInARow(n) < 5
          /\ returns[n].outcome \in {"nil", "error"}
          /\ returns[n + 1].calledAt - returns[n].returnedAt =
                 IF returns[n].outcome = "error" THEN 5 ELSE 0
    /\ lpc = "sleeping" => FailuresInARow(Len(returns)) \in 1..4
    /\ (lpc = "consume" /\ returns # <<>>)
         => \/ returns[Len(returns)].outcome = "nil"
            \/ lnow - returns[Len(returns)].returnedAt = 5

\* the loop gave up although it had met more failures than 5 before: one, then a
\* success, then five in a row
C16_Witness ==
    /\ lpc = "gaveUp"
    /\ Len(returns) >= 7
    /\ returns[Len(returns) - 6].outcome = "error"
    /\ returns[Len(returns) - 5].outcome = "nil"
    /\ consecutiveFailures = 5

----------------------------------------------------------------------------
(* The matched-event producer: SendMatchedEvent *)

MaxSend == 3        \* longest filter list handed to SendMatchedEvent

\* a Go string, given by its bytes, is UTF-8: ASCII bytes and two-byte sequences
RECURSIVE ValidUTF8(_)
ValidUTF8(str) ==
    IF str = <<>> THEN TRUE
    ELSE IF str[1] < 128 THEN ValidUTF8(Tail(str))
    ELSE IF 194 <= str[1] /\ str[1] <= 223 /\ Len(str) >= 2
                /\ 128 <= str[2] /\ str[2] <= 191
         THEN ValidUTF8(Tail(Tail(str)))
         ELSE FALSE

StringFields == <<"Environment", "AccountId", "Domain", "AppBundle", "BidRequest",
                  "BidResponse">>
EventFields == <<"Environment", "TimestampMs", "Status", "AccountId", "Domain",
                 "AppBundle", "MediaTypes", "BidRequest", "BidResponse", "Errors">>

\* the zero value of a field of AuctionEvent
ZeroOf(name) == IF name \in {"TimestampMs", "Status"} THEN 0 ELSE <<>>

ZeroEvent == [name \in Elements(EventFields) |-> ZeroOf(name)]

\* the fields proto.Marshal writes: those that differ from their zero value
RECURSIVE WrittenFields(_, _)
WrittenFields(event, names) ==
    IF names = <<>> THEN <<>>
    ELSE (IF event[Head(names)] = ZeroOf(Head(names)) THEN <<>>
          ELSE <<<<Head(names), event[Head(names)]>>>>)
         \o WrittenFields(event, Tail(names))

\* serializeToProtobuf: proto.Marshal refuses a string field that is not UTF-8
serializeToProtobuf(event) ==
    IF \E i \in DOMAIN StringFields : ~ValidUTF8(event[StringFields[i]])
    THEN [err |-> "failed to marshal protobuf", data |-> <<>>]
    ELSE [err |-> "nil", data |-> WrittenFields(event, EventFields)]

PutUint32LittleEndian(v) ==
    <<v % 256, (v \div 256) % 256, (v \div 65536) % 256, (v \div 16777216) % 256>>

\* binary.BigEndian.PutUint32(keyBytes, uint32(v)) for an int32 v: the conversion keeps
\* the 32 bits, which floored division and modulus read off the signed value
PutUint32(v) ==
    <<(v \div 16777216) % 256, (v \div 65536) % 256, (v \div 256) % 256, v % 256>>

MatchedTopic == <<109>>

\* the sarama.ProducerMessage built for one filter
ProducerMessage(filter, data, event) ==
    [Topic |-> MatchedTopic, Partition |-> filter.PartitionId,
     Key |-> PutUint32(filter.SessionId), Value |-> data,
     Timestamp |-> event.TimestampMs]

\* SendMatchedEvent: the messages sent into producer.Input(), in order, and the error
SendMatchedEvent(event, filters) ==
    IF event = Nil \/ Len(filters) = 0
    THEN [enqueued |-> <<>>, err |-> "nil"]
    ELSE LET s == serializeToProtobuf(event)
         IN  IF s.err # "nil"
             THEN [enqueued |-> <<>>, err |-> "failed to serialize event"]
             ELSE [enqueued |-> [i \in DOMAIN filters |->
                                    ProducerMessage(filters[i], s.data, event)],
                   err |-> "nil"]

Event(ts, acc, dom) ==
    [ZeroEvent EXCEPT !.Environment = <<112>>, !.TimestampMs = ts, !.AccountId = acc,
                      !.Domain = dom, !.MediaTypes = <<"MEDIA_TYPE_BANNER">>]

\* events handed to SendMatchedEvent: nil, plain, with a two-byte character in the
\* domain, with a byte that no UTF-8 text holds
ProducerEvents ==
    {Nil, Event(5, AcctLower, DomAb), Event(7, AcctLower, <<195, 169>>),
     Event(9, AcctLower, <<255>>), ZeroEvent}

\* filters as GetMatches hands them over: sessions that fill one byte, two bytes, and
\* a negative session
ProducerFilters ==
    {Filter(1, 3, AcctLower, <<>>, <<>>, <<>>, 0),
     Filter(258, 7, AcctLower, <<>>, <<>>, <<>>, 0),
     Filter(-1, 0, AcctLower, DomAb, <<>>, <<>>, 0)}

FilterLists == UNION {[1..n -> ProducerFilters] : n \in 0..MaxSend}

SendMatchedEventCall ==
    /\ \E event \in ProducerEvents, filters \in FilterLists :
          LET r == SendMatchedEvent(event, filters)
          IN  last' = [op |-> "SendMatchedEvent", event |-> event, filters |-> filters,
                       enqueued |-> r.enqueued, err |-> r.err]
    /\ UNCHANGED <<byAccount, count, now, activeFilters, nonRegistryVars>>

\* NewProducer
InitProducer ==
    /\ byAccount = EmptyMap
    /\ count = 0
    /\ now = 0
    /\ activeFilters = 0
    /\ last = [op |-> "NewProducer"]
    /\ MediaIdle
    /\ ConsumerIdle
    /\ LoopIdle
    /\ SinkIdle
    /\ ModuleIdle

NextProducer == SendMatchedEventCall

SpecProducer == InitProducer /\ [][NextProducer]_vars

----------------------------------------------------------------------------
(* Properties of the producer *)

\* the 32-bit signed number a 4-byte key stands for, most significant byte first
BigEndianValue(key) ==
    (IF key[1] >= 128 THEN key[1] - 256 ELSE key[1]) * 16777216
        + key[2] * 65536 + key[3] * 256 + key[4]

\* the event a message value decodes to
RECURSIVE EventOfData(_, _)
EventOfData(event, data) ==
    IF data = <<>> THEN event
    ELSE EventOfData([event EXCEPT ![Head(data)[1]] = Head(data)[2]], Tail(data))

\* the i-th message is the one the i-th filter asks for
MessageFor(msg, filter, event) ==
    /\ msg.Partition = filter.PartitionId
    /\ Len(msg.Key) = 4
    /\ \A b \in 1..4 : msg.Key[b] \in 0..255
    /\ BigEndianValue(msg.Key) = filter.SessionId
    /\ EventOfData(ZeroEvent, msg.Value) = event
    /\ msg.Timestamp = event.TimestampMs

SentToEveryFilter ==
    /\ last.err = "nil"
    /\ Len(last.enqueued) = Len(last.filters)
    /\ \A i \in DOMAIN last.filters :
          /\ MessageFor(last.enqueued[i], last.filters[i], last.event)
          /\ last.enqueued[i].Value = last.enqueued[1].Value

TextOfEventIsUTF8 ==
    \A name \in {"Environment", "AccountId", "Domain", "AppBundle", "BidRequest",
                 "BidResponse"} : ValidUTF8(last.event[name])

\* C19 as stated: with a non-nil event and n >= 1 filters SendMatchedEvent enqueues
\* one message per filter, in list order, and returns success; with a nil event or no
\* filter it enqueues nothing and returns success.
C19_SendAlwaysEnqueues ==
    last.op = "SendMatchedEvent"
        => IF last.event = Nil \/ last.filters = <<>>
           THEN last.enqueued = <<>> /\ last.err = "nil"
           ELSE SentToEveryFilter

\* C19 amended: with a non-nil event that can be encoded and n >= 1 filters,
\* SendMatchedEvent enqueues exactly n messages, the i-th with the partition of the
\* i-th filter and the 4-byte big-endian session id as key, all with the same value
\* (the encoded event) and the event's timestamp, and returns success; with an event
\* that cannot be encoded it enqueues nothing and returns an error; with a nil event
\* or no filter it enqueues nothing and returns success.
C19_SendEnqueuesWhenEncodable ==
    last.op = "SendMatchedEvent"
        => IF last.event = Nil \/ last.filters = <<>>
           THEN last.enqueued = <<>> /\ last.err = "nil"
           ELSE IF TextOfEventIsUTF8
                THEN SentToEveryFilter
                ELSE last.enqueued = <<>> /\ last.err # "nil"

\* three messages went out for sessions 258, -1 and 1, in that order
C19_Witness ==
    /\ last.op = "SendMatchedEvent"
    /\ last.err = "nil"
    /\ Len(last.enqueued) = 3
    /\ last.enqueued[1].Key = <<0, 0, 1, 2>>
    /\ last.enqueued[1].Partition = 7
    /\ last.enqueued[2].Key = <<255, 255, 255, 255>>
    /\ last.enqueued[3].Key = <<0, 0, 0, 1>>
    /\ last.enqueued[3].Timestamp = 7

----------------------------------------------------------------------------
(* The audit orchestrator: LogAuctionObject *)

\* an openrtb2.Imp by the media objects it carries
Imp(banner, video, audio, native) ==
    [Banner |-> banner, Video |-> video, Audio |-> audio, Native |-> native]

RECURSIVE MediaTypeSetFromImps(_)
MediaTypeSetFromImps(imps) ==
    IF imps = <<>> THEN 0
    ELSE LET imp == Head(imps)
             b == IF imp.Banner THEN MediaTypeBannerBit ELSE 0
             v == IF imp.Video THEN MediaTypeVideoBit ELSE 0
             a == IF imp.Audio THEN MediaTypeAudioBit ELSE 0
             n == IF imp.Native THEN MediaTypeNativeBit ELSE 0
         IN  BitOr(BitOr(BitOr(BitOr(b, v), a), n), MediaTypeSetFromImps(Tail(imps)))

ToLowerSkipped(str) == str

\* strings.ToLower on an ASCII string
ToLower(str) ==
    [i \in DOMAIN str |-> IF 65 <= str[i] /\ str[i] <= 90 THEN str[i] + 32 ELSE str[i]]

\* jsonutil.Marshal of a string: text that is not UTF-8 comes out as an escape
JSONString(str) ==
    <<34>> \o (IF ValidUTF8(str) THEN str ELSE <<92, 117, 102, 102, 102, 100>>) \o <<34>>

\* jsonutil.Marshal(BidRequest), reduced to the site domain and the app bundle
JSONOfRequest(req) ==
    <<123>> \o (IF req.Site = Nil THEN <<>> ELSE JSONString(req.Site.Domain))
            \o <<44>>
            \o (IF req.App = Nil THEN <<>> ELSE JSONString(req.App.Bundle))
            \o <<125>>

Environment == <<112>>

buildAuctionEvent(ao, environment, accountID, domain, appBundle, mediaTypes) ==
    [ZeroEvent EXCEPT !.Environment = environment, !.TimestampMs = ao.StartTime,
                      !.Status = ao.Status, !.AccountId = accountID, !.Domain = domain,
                      !.AppBundle = appBundle, !.MediaTypes = mediaTypes,
                      !.BidRequest = JSONOfRequest(ao.RequestWrapper.BidRequest)]

BidRequest(site, app, imps) == [Site |-> site, App |-> app, Imp |-> imps]

AuctionObject(account, wrapper) ==
    [Account |-> account, RequestWrapper |-> wrapper, StartTime |-> 5, Status |-> 200]

Wrapped(req) == [BidRequest |-> req]

\* the records handed to LogAuctionObject
AuctionObjects ==
    {Nil,
     AuctionObject(Nil, Wrapped(BidRequest(Nil, Nil, <<>>))),
     AuctionObject([ID |-> AcctLower], Nil),
     AuctionObject([ID |-> AcctLower], Wrapped(Nil)),
     AuctionObject([ID |-> AcctLower],
                   Wrapped(BidRequest([Domain |-> DomaB], Nil,
                                      <<Imp(TRUE, FALSE, FALSE, FALSE)>>))),
     AuctionObject([ID |-> AcctUpper], Wrapped(BidRequest(Nil, Nil, <<>>))),
     AuctionObject([ID |-> AcctLower],
                   Wrapped(BidRequest([Domain |-> <<255>>], Nil,
                                      <<Imp(FALSE, TRUE, FALSE, FALSE)>>))),
     AuctionObject([ID |-> AcctUpper],
                   Wrapped(BidRequest(Nil, [Bundle |-> AppCd],
                                      <<Imp(TRUE, FALSE, FALSE, FALSE),
                                        Imp(FALSE, TRUE, FALSE, TRUE)>>)))}

\* the filters registered while auctions are logged
AuditFilters ==
    {Filter(1, 3, AcctLower, <<>>, <<>>, <<>>, 0),
     Filter(2, 7, AcctLower, DomAb, <<>>, <<>>, 0),
     Filter(2, 7, AcctLower, <<>>, <<>>, <<"MEDIA_TYPE_VIDEO">>, 0),
     Filter(1, 0, AcctUpper, <<>>, <<>>, <<>>, 0)}

IsNullRecord(ao) ==
    \/ ao = Nil
    \/ ao.Account = Nil
    \/ ao.RequestWrapper = Nil
    \/ ao.RequestWrapper.BidRequest = Nil

NoMatchesIgnored(filters) == FALSE

\* the early return on an empty match list
NoMatches(filters) == Len(filters) = 0

\* what LogAuctionObject did: whether it queried the registry, the filters it got,
\* the event it built, whether it called the producer, the messages that call sent
\* into the producer's input, and the metrics it recorded, in order
Logged(ao, queried, filters, event, sent, enqueued, metrics) ==
    [op |-> "LogAuctionObject", ao |-> ao, queried |-> queried, filters |-> filters,
     event |-> event, sent |-> sent, enqueued |-> enqueued, metrics |-> metrics]

RecordEventMatchedOnce(filters, accountID) ==
    <<[name |-> "event_matched", label |-> accountID]>>

\* the loop over the matched filters that records one event_matched each
RecordEventMatched(filters, accountID) ==
    [i \in DOMAIN filters |-> [name |-> "event_matched", label |-> accountID]]

LogAuctionObject(ao) ==
    /\ IF IsNullRecord(ao)
       THEN last' = Logged(ao, FALSE, <<>>, Nil, FALSE, <<>>, <<>>)
       ELSE LET accountID == ToLower(ao.Account.ID)
                req == ao.RequestWrapper.BidRequest
                domain == IF req.Site # Nil THEN req.Site.Domain ELSE <<>>
                appBundle == IF req.App # Nil THEN req.App.Bundle ELSE <<>>
                mediaTypeSet == MediaTypeSetFromImps(req.Imp)
            IN  \E order \in Orders(IF accountID \in DOMAIN byAccount
                                    THEN DOMAIN byAccount[accountID] ELSE {}) :
                   LET filters == GetMatches(order, accountID, domain, appBundle,
                                             mediaTypeSet)
                       event == buildAuctionEvent(ao, Environment, accountID, domain,
                                                  appBundle, ToSlice(mediaTypeSet))
                       r == SendMatchedEvent(event, filters)
                   IN  IF NoMatches(filters)
                       THEN last' = Logged(ao, TRUE, filters, Nil, FALSE, <<>>, <<>>)
                       ELSE IF r.err # "nil"
                            THEN last' = Logged(ao, TRUE, filters, event, TRUE,
                                                r.enqueued, <<[name |-> "error",
                                                               label |-> "send"]>>)
                            ELSE last' = Logged(ao, TRUE, filters, event, TRUE,
                                                r.enqueued,
                                                RecordEventMatched(filters, accountID))
    /\ UNCHANGED <<byAccount, count, now, activeFilters, nonRegistryVars>>

LogAuctionObjectCall == \E ao \in AuctionObjects : LogAuctionObject(ao)

RegisterAuditCall ==
    \E filter \in AuditFilters :
        /\ Register(filter, now)
        /\ UNCHANGED <<now, nonRegistryVars>>

\* the registry fed with filters while auctions are logged
NextAudit ==
    \/ RegisterAuditCall
    \/ UnregisterCall
    \/ LogAuctionObjectCall
    \/ cleanupExpired
    \/ Tick

SpecAudit == Init /\ [][NextAudit]_vars

----------------------------------------------------------------------------
(* Properties of the orchestrator *)

LastIsLog == last.op = "LogAuctionObject"

\* the record lacks the account or the request
LacksAccountOrRequest(ao) ==
    \/ "isNil" \in DOMAIN ao
    \/ "isNil" \in DOMAIN ao.Account
    \/ "isNil" \in DOMAIN ao.RequestWrapper
    \/ "isNil" \in DOMAIN ao.RequestWrapper.BidRequest

\* the union of the media types of the impressions: BANNER=1, VIDEO=2, AUDIO=4, NATIVE=8
MaskOfImps(imps) ==
    (IF \E i \in DOMAIN imps : imps[i].Banner THEN 1 ELSE 0)
        + (IF \E i \in DOMAIN imps : imps[i].Video THEN 2 ELSE 0)
        + (IF \E i \in DOMAIN imps : imps[i].Audio THEN 4 ELSE 0)
        + (IF \E i \in DOMAIN imps : imps[i].Native THEN 8 ELSE 0)

\* C20: for a record without account or request the orchestrator queries nothing,
\* builds no event, calls no producer and records no metric; when GetMatches returns
\* no filter it builds no event and enqueues nothing; every message it enqueues is
\* for a filter that GetMatches returned for this auction, which is a filter stored
\* under the lower-cased account that matches the auction.
C20_NoWorkWithoutMatch ==
    LastIsLog
        => /\ LacksAccountOrRequest(last.ao)
                => /\ ~last.queried
                   /\ last.event = Nil
                   /\ ~last.sent
                   /\ last.enqueued = <<>>
                   /\ last.metrics = <<>>
           /\ last.filters = <<>>
                => /\ last.event = Nil
                   /\ ~last.sent
                   /\ last.enqueued = <<>>
           /\ \A i \in DOMAIN last.enqueued :
                 \E j \in DOMAIN last.filters :
                    /\ BigEndianValue(last.enqueued[i].Key) = last.filters[j].SessionId
                    /\ last.enqueued[i].Partition = last.filters[j].PartitionId
           /\ last.queried
                => LET req == last.ao.RequestWrapper.BidRequest
                       d == IF "isNil" \in DOMAIN req.Site THEN <<>> ELSE req.Site.Domain
                       b == IF "isNil" \in DOMAIN req.App THEN <<>> ELSE req.App.Bundle
                       M == MaskOfImps(req.Imp)
                   IN  Elements(last.filters) =
                           ExpectedMatches(ToLowerASCII(last.ao.Account.ID), d, b, M, now)

\* two filters are stored under the account, the auction matches one of them only, and
\* one message went out, for that filter
C20_Witness ==
    /\ LastIsLog
    /\ last.queried
    /\ last.ao.Account.ID = AcctUpper
    /\ AcctLower \in DOMAIN byAccount
    /\ Cardinality(DOMAIN byAccount[AcctLower]) = 2
    /\ Len(last.filters) = 1
    /\ Len(last.enqueued) = 1
    /\ last.enqueued[1].Partition = 3

\* the records of metric `name` among the metrics of the last call
MetricsNamed(name) ==
    SelectSeq(last.metrics, LAMBDA m : m.name = name)

\* C21 as stated: whenever GetMatches returned n >= 1 filters, event_matched was
\* recorded exactly n times, each with the lower-cased account id.
C21_EventMatchedPerFilter ==
    (LastIsLog /\ Len(last.filters) >= 1)
        => /\ Len(MetricsNamed("event_matched")) = Len(last.filters)
           /\ \A i \in DOMAIN last.metrics :
                 last.metrics[i].name = "event_matched"
                    => last.metrics[i].label = ToLowerASCII(last.ao.Account.ID)

\* C21: when GetMatches returned n >= 1 filters and the producer accepted the event,
\* event_matched was recorded exactly n times, each with the lower-cased account id,
\* and nothing else was recorded; when the producer returned an error, one send
\* error was recorded and event_matched was not.
C21_EventMatchedPerFilterSent ==
    (LastIsLog /\ Len(last.filters) >= 1)
        => IF TextOfEventIsUTF8
           THEN /\ Len(last.metrics) = Len(last.filters)
                /\ \A i \in DOMAIN last.metrics :
                      /\ last.metrics[i].name = "event_matched"
                      /\ last.metrics[i].label = ToLowerASCII(last.ao.Account.ID)
           ELSE /\ last.metrics = <<[name |-> "error", label |-> "send"]>>
                /\ last.enqueued = <<>>

\* an auction of the upper-case account matched two stored filters and event_matched
\* was recorded twice under the lower-case account
C21_Witness ==
    /\ LastIsLog
    /\ last.queried
    /\ last.ao.Account.ID = AcctUpper
    /\ Len(last.filters) = 2
    /\ Len(last.enqueued) = 2
    /\ Len(MetricsNamed("event_matched")) = 2
    /\ last.metrics[1].label = AcctLower

----------------------------------------------------------------------------
(* Archive sinks (package s3): one S3Logger per event type, each with a worker
   goroutine that buffers the serialized records in a gzip stream and hands the
   finished batches to the upload client *)

MaxLogs == 2          \* payloads logged to the sink that is followed alone

\* the values of max_buffer_bytes the configuration is drawn from
BufferSizes == {1, 3}

\* the lengths of the serialized records, in bytes
PayloadLengths == {1, 2}

\* the serialized record of the n-th Log call: `len` bytes that name the call
Payload(n, len) == [i \in 1..len |-> 64 + n]

Newline == <<10>>

\* what compress/gzip puts in front of and behind the data of one member; the
\* compressed data is written as the bytes it decompresses to
GzipHeader == <<31, 139>>
GzipTrailer == <<0>>

\* gzw.Write(data): a writer that was just built or Reset starts a member first
gzwWrite(stream, data) ==
    (IF stream = <<>> THEN GzipHeader ELSE stream) \o data

\* gzw.Close(): the member is finished
gzwClose(stream) ==
    (IF stream = <<>> THEN GzipHeader ELSE stream) \o GzipTrailer

\* what a gzip reader makes of one finished member; Nil when it is not one
Gunzip(bytes) ==
    IF /\ Len(bytes) >= Len(GzipHeader) + Len(GzipTrailer)
       /\ SubSeq(bytes, 1, Len(GzipHeader)) = GzipHeader
       /\ SubSeq(bytes, Len(bytes) - Len(GzipTrailer) + 1, Len(bytes)) = GzipTrailer
       /\ \A i \in (Len(GzipHeader) + 1)..(Len(bytes) - Len(GzipTrailer)) :
             bytes[i] \notin {31, 139, 0}
    THEN SubSeq(bytes, Len(GzipHeader) + 1, Len(bytes) - Len(GzipTrailer))
    ELSE Nil

\* bufferEvent under l.mux: the payload and a newline go through the gzip writer and
\* the counter grows by the length of the payload
bufferEvent(k, data) ==
    /\ buffer' = [buffer EXCEPT ![k] = gzwWrite(gzwWrite(@, data), Newline)]
    /\ bufferSize' = [bufferSize EXCEPT ![k] = @ + Len(data)]

isFullAbove(k) == bufferSize[k] > maxBufferByteSize

\* isFull under l.mux.RLock
isFull(k) == bufferSize[k] >= maxBufferByteSize

resetCounterOnly(k) ==
    /\ buffer' = buffer
    /\ bufferSize' = [bufferSize EXCEPT ![k] = 0]

\* reset: gzw.Reset, buffer.Reset, bufferSize = 0
reset(k) ==
    /\ buffer' = [buffer EXCEPT ![k] = <<>>]
    /\ bufferSize' = [bufferSize EXCEPT ![k] = 0]

generateS3KeyOfPrefix(eventType) == [prefix |-> "prefix", type |-> ""]

\* generateS3Key: {prefix}/env=../type={eventType}/date=../hour=../{unix}_{uuid}.jsonl.gz,
\* kept as the fields this model tells keys apart by
generateS3Key(eventType) == [prefix |-> "prefix", type |-> eventType]

PayloadAliased(bytes) == [owned |-> FALSE, bytes |-> bytes]

\* payload := make([]byte, l.buffer.Len()); l.buffer.Read(payload): a slice of its own
PayloadCopied(bytes) == [owned |-> TRUE, bytes |-> bytes]

\* the bytes a slice of the buffer's array would show once the buffer was reset and
\* written again: the new bytes from the start, the old ones behind them
Overlay(old, stream) ==
    [i \in 1..Len(old) |-> IF i <= Len(stream) THEN stream[i] ELSE old[i]]

\* the bytes of the payload slice when the upload task reads it
BytesOf(payload, stream) ==
    IF payload.owned THEN payload.bytes ELSE Overlay(payload.bytes, stream)

flushAlways(size) == FALSE

\* the guard of flush: nothing was buffered
NothingBuffered(size) == size = 0

\* flush under l.mux: nothing when the counter is 0; otherwise close the gzip member,
\* copy the buffer, make the key, reset, and start the upload task; `by` records who
\* called
flush(k, by) ==
    IF NothingBuffered(bufferSize[k])
    THEN UNCHANGED <<buffer, bufferSize, uploads>>
    ELSE LET payload == PayloadCopied(gzwClose(buffer[k]))
             key == generateS3Key(k)
         IN  /\ reset(k)
             /\ uploads' = [uploads EXCEPT ![k] =
                               Append(@, [payload |-> payload, key |-> key, by |-> by,
                                          put |-> <<>>])]

\* bufferCh has no buffer: a payload passes from the sender to the worker when the
\* worker is at its select and takes the case of bufferCh; the worker holds it as
\* `event`, the last element of received
Rendezvous(k, max, lengths) ==
    /\ wpc[k] = "select"
    /\ Len(received[k]) < max
    /\ \E len \in lengths :
          LET n == Len(received["auction"]) + Len(received["amp"])
                     + Len(received["video"]) + 1
          IN  received' = [received EXCEPT ![k] = Append(@, Payload(n, len))]
    /\ wpc' = [wpc EXCEPT ![k] = "bufferEvent"]
    /\ UNCHANGED <<maxBufferByteSize, bufferSize, buffer, uploads, tickC, sigTermCh,
                   spc, atShutdown, registryVars, mediaVars, consumerVars, loopVars,
                   clpc, shutdownSteps>>

\* LogAuctionObject, LogAmpObject, LogVideoObject, called when the worker is ready to
\* take the payload: the serialized record goes into bufferCh and the call returns
S3LogObject(k, max, lengths) ==
    /\ ~sending[k]
    /\ Rendezvous(k, max, lengths)
    /\ UNCHANGED sending

\* LogAuctionObject, LogAmpObject, LogVideoObject, up to the send: the caller has the
\* serialized record and waits at bufferCh <- payload
S3LogObjectSends(k, max) ==
    /\ ~sending[k]
    /\ Len(received[k]) < max
    /\ sending' = [sending EXCEPT ![k] = TRUE]
    /\ UNCHANGED <<sinkVars, registryVars, mediaVars, consumerVars, loopVars, clpc,
                   shutdownSteps>>

\* the send of a waiting caller completes and the call returns
S3LogObjectReturns(k, max, lengths) ==
    /\ sending[k]
    /\ Rendezvous(k, max, lengths)
    /\ sending' = [sending EXCEPT ![k] = FALSE]

\* start, case event := <-l.bufferCh: l.bufferEvent(event)
WorkerBufferEvent(k) ==
    /\ wpc[k] = "bufferEvent"
    /\ bufferEvent(k, received[k][Len(received[k])])
    /\ wpc' = [wpc EXCEPT ![k] = "isFull"]
    /\ UNCHANGED <<maxBufferByteSize, received, uploads, tickC, sigTermCh, spc,
                   atShutdown, asideSink>>

\* start, if l.isFull() { ... }
WorkerIsFull(k) ==
    /\ wpc[k] = "isFull"
    /\ wpc' = [wpc EXCEPT ![k] = IF isFull(k) THEN "flushFull" ELSE "select"]
    /\ UNCHANGED <<maxBufferByteSize, bufferSize, buffer, received, uploads, tickC,
                   sigTermCh, spc, atShutdown, asideSink>>

\* start, case <-ticker.C
SelectTick(k) ==
    /\ wpc[k] = "select"
    /\ tickC[k]
    /\ tickC' = [tickC EXCEPT ![k] = FALSE]
    /\ wpc' = [wpc EXCEPT ![k] = "flushTick"]
    /\ UNCHANGED <<maxBufferByteSize, bufferSize, buffer, received, uploads,
                   sigTermCh, spc, atShutdown, asideSink>>

\* start, case <-l.sigTermCh
SelectSigTerm(k) ==
    /\ wpc[k] = "select"
    /\ sigTermCh[k]
    /\ sigTermCh' = [sigTermCh EXCEPT ![k] = FALSE]
    /\ wpc' = [wpc EXCEPT ![k] = "flushTerm"]
    /\ UNCHANGED <<maxBufferByteSize, bufferSize, buffer, received, uploads, tickC,
                   spc, atShutdown, asideSink>>

AfterFlushLoops(at) == "select"

\* where start goes after the flush of each case: it returns after the signal
AfterFlush(at) == IF at = "flushTerm" THEN "done" ELSE "select"

\* start, the l.flush() of the three cases
WorkerFlush(k) ==
    /\ wpc[k] \in {"flushFull", "flushTick", "flushTerm"}
    /\ flush(k, wpc[k])
    /\ wpc' = [wpc EXCEPT ![k] = AfterFlush(wpc[k])]
    /\ UNCHANGED <<maxBufferByteSize, received, tickC, sigTermCh, spc, atShutdown,
                   asideSink>>

\* the ticker of the worker fires: ticker.C holds one tick, a tick that finds it
\* full is dropped; the deferred ticker.Stop ends it when start returns
TickFires(k) ==
    /\ wpc[k] # "done"
    /\ ~tickC[k]
    /\ tickC' = [tickC EXCEPT ![k] = TRUE]
    /\ UNCHANGED <<maxBufferByteSize, wpc, bufferSize, buffer, received, uploads,
                   sigTermCh, spc, atShutdown, asideSink>>

\* the process gets SIGINT or SIGTERM: signal.Notify puts it into the sigTermCh of
\* every logger that has room for it
Signal ==
    /\ \E k \in Kinds : ~sigTermCh[k]
    /\ sigTermCh' = [k \in Kinds |-> TRUE]
    /\ UNCHANGED <<maxBufferByteSize, wpc, bufferSize, buffer, received, uploads,
                   tickC, spc, atShutdown, asideSink>>

\* S3Module.Shutdown is called
ShutdownCall ==
    /\ spc = "idle"
    /\ spc' = "auction"
    /\ atShutdown' = [k \in Kinds |-> Len(received[k])]
    /\ UNCHANGED <<maxBufferByteSize, wpc, bufferSize, buffer, received, uploads,
                   tickC, sigTermCh, asideSink>>

\* S3Module.Shutdown: auctionLogger.flush(), ampLogger.flush(), videoLogger.flush()
ShutdownFlush ==
    /\ spc \in Kinds
    /\ flush(spc, "Shutdown")
    /\ spc' = CASE spc = "auction" -> "amp"
                [] spc = "amp" -> "video"
                [] spc = "video" -> "returned"
    /\ UNCHANGED <<maxBufferByteSize, wpc, received, tickC, sigTermCh, atShutdown,
                   asideSink>>

\* the task flush started runs l.sender(payload, key): the PUT carries the bytes the
\* payload slice shows at that time
UploadRuns(k) ==
    \E i \in DOMAIN uploads[k] :
        /\ uploads[k][i].put = <<>>
        /\ uploads' = [uploads EXCEPT ![k][i].put =
                          BytesOf(uploads[k][i].payload, buffer[k])]
        /\ UNCHANGED <<maxBufferByteSize, wpc, bufferSize, buffer, received, tickC,
                       sigTermCh, spc, atShutdown, asideSink>>

\* NewModule with max_buffer_bytes drawn from `sizes`: three loggers, each worker at
\* its select
InitSinkWith(sizes) ==
    /\ byAccount = EmptyMap
    /\ count = 0
    /\ now = 0
    /\ activeFilters = 0
    /\ last = [op |-> "none"]
    /\ MediaIdle
    /\ ConsumerIdle
    /\ LoopIdle
    /\ ModuleIdle
    /\ maxBufferByteSize \in sizes
    /\ wpc = [k \in Kinds |-> "select"]
    /\ bufferSize = [k \in Kinds |-> 0]
    /\ buffer = [k \in Kinds |-> <<>>]
    /\ received = [k \in Kinds |-> <<>>]
    /\ uploads = [k \in Kinds |-> <<>>]
    /\ tickC = [k \in Kinds |-> FALSE]
    /\ sigTermCh = [k \in Kinds |-> FALSE]
    /\ spc = "idle"
    /\ atShutdown = [k \in Kinds |-> 0]

InitSink == InitSinkWith(BufferSizes)

\* the steps of the logger of one event type
\* the loggers share nothing but the signal and the caller of Shutdown: the auction
\* logger followed alone, the other two workers left waiting at their select
NextSink ==
    \/ S3LogObject("auction", MaxLogs, PayloadLengths)
    \/ WorkerBufferEvent("auction")
    \/ WorkerIsFull("auction")
    \/ SelectTick("auction")
    \/ SelectSigTerm("auction")
    \/ WorkerFlush("auction")
    \/ TickFires("auction")
    \/ UploadRuns("auction")
    \/ Signal
    \/ ShutdownCall
    \/ ShutdownFlush

SpecSink == InitSink /\ [][NextSink]_vars

InitArchive == InitSinkWith(BufferSizes)

\* the three loggers together with the caller of Shutdown, while no ticker fires and
\* no signal arrives; each logger is handed one record, of one byte, which fills the
\* buffer when max_buffer_bytes is 1
NextArchive ==
    \/ \E k \in Kinds : S3LogObject(k, 1, {1})
    \/ \E k \in Kinds : WorkerBufferEvent(k)
    \/ \E k \in Kinds : WorkerIsFull(k)
    \/ \E k \in Kinds : WorkerFlush(k)
    \/ \E k \in Kinds : UploadRuns(k)
    \/ ShutdownCall
    \/ ShutdownFlush

SpecArchive == InitArchive /\ [][NextArchive]_vars

\* the scheduler runs every goroutine that can take a step, time passes so the
\* ticker keeps firing, and a select with several ready cases picks each of them
\* again and again
FairSink ==
    /\ WF_vars(WorkerBufferEvent("auction"))
    /\ WF_vars(WorkerIsFull("auction"))
    /\ WF_vars(WorkerFlush("auction"))
    /\ WF_vars(UploadRuns("auction"))
    /\ WF_vars(TickFires("auction"))
    /\ WF_vars(ShutdownFlush)
    /\ SF_vars(SelectTick("auction"))
    /\ SF_vars(SelectSigTerm("auction"))

\* the auction logger under a configuration of max_buffer_bytes = 3 and records of
\* one byte
NextSinkLive ==
    \/ S3LogObject("auction", MaxLogs, {1})
    \/ WorkerBufferEvent("auction")
    \/ WorkerIsFull("auction")
    \/ SelectTick("auction")
    \/ SelectSigTerm("auction")
    \/ WorkerFlush("auction")
    \/ TickFires("auction")
    \/ UploadRuns("auction")
    \/ Signal
    \/ ShutdownCall
    \/ ShutdownFlush

SpecSinkLive == InitSinkWith({3}) /\ [][NextSinkLive]_vars /\ FairSink

----------------------------------------------------------------------------
(* Properties of the archive sinks *)

RECURSIVE Flatten(_)
\* the sequences of a sequence, one after the other
Flatten(ss) == IF ss = <<>> THEN <<>> ELSE Head(ss) \o Flatten(Tail(ss))

\* the newline-delimited text of a sequence of records
Lines(records) == Flatten([i \in DOMAIN records |-> records[i] \o Newline])

\* the bytes written into the gzip member that is still open
OpenData(stream) ==
    IF stream = <<>> THEN <<>> ELSE SubSeq(stream, Len(GzipHeader) + 1, Len(stream))

\* the record the worker has taken from bufferCh and not yet written
Held(k) ==
    IF wpc[k] = "bufferEvent" THEN <<received[k][Len(received[k])]>> ELSE <<>>

\* what the batch handed to the i-th upload task of the sink decompresses to
BatchText(k, i) == Gunzip(uploads[k][i].payload.bytes)

\* C22: for each sink at every moment, every batch handed to the uploader is one
\* finished gzip member that holds whole lines, at least one, and the batches in
\* flush order, then the open member of the buffer, then the record the worker
\* holds, are exactly the payloads the worker received, in order, each followed by
\* one newline: nothing is duplicated, dropped, reordered or split, whoever flushed.
C22_BatchesArePrefixOfReceived ==
    \A k \in Kinds :
        /\ \A i \in DOMAIN uploads[k] :
              /\ BatchText(k, i) # Nil
              /\ BatchText(k, i) # <<>>
              /\ BatchText(k, i)[Len(BatchText(k, i))] = 10
        /\ (\A i \in DOMAIN uploads[k] : BatchText(k, i) # Nil)
              => Flatten([i \in DOMAIN uploads[k] |-> BatchText(k, i)])
                     \o OpenData(buffer[k]) \o Lines(Held(k))
                   = Lines(received[k])

\* Shutdown flushed the first record while the worker was between writing it and
\* its size check, and the second record left in a batch of the size check
C22_Witness ==
    /\ Len(received["auction"]) = 2
    /\ Len(uploads["auction"]) = 2
    /\ uploads["auction"][1].by = "Shutdown"
    /\ uploads["auction"][2].by = "flushFull"
    /\ maxBufferByteSize = 1
    /\ bufferSize["auction"] = 0

\* the step is a flush of sink k: the worker leaves one of its flush positions, or
\* the caller of Shutdown passes the logger
FlushStep(k) ==
    \/ /\ wpc[k] \in {"flushFull", "flushTick", "flushTerm"}
       /\ wpc'[k] # wpc[k]
    \/ /\ spc = k
       /\ spc' # spc

\* the number of newlines of a text
NewlinesOf(text) == Cardinality({i \in DOMAIN text : text[i] = 10})

\* C23: a flush of a sink whose counter is 0, from the tick, the size check, the
\* signal or Shutdown, starts no upload and leaves buffer and counter as they were;
\* and every batch handed to an upload task holds at least one record.
C23_EmptyFlushIsNoOp ==
    /\ [][\A k \in Kinds :
             (FlushStep(k) /\ bufferSize[k] = 0)
                => /\ uploads'[k] = uploads[k]
                   /\ buffer'[k] = buffer[k]
                   /\ bufferSize'[k] = 0]_vars
    /\ [](\A k \in Kinds : \A i \in DOMAIN uploads[k] :
             /\ BatchText(k, i) # Nil
             /\ NewlinesOf(BatchText(k, i)) >= 1)

\* Shutdown has flushed the three loggers, the auction logger after its worker had
\* taken a record and before it wrote it, and no upload was started; the worker has
\* written the record since
C23_Witness ==
    /\ spc = "returned"
    /\ atShutdown["auction"] = 1
    /\ uploads = [k \in Kinds |-> <<>>]
    /\ bufferSize["auction"] >= 1

\* C24: with max_buffer_bytes >= 1, while the worker of a sink waits in its select
\* the counter is below max_buffer_bytes; and when the worker flushes after its size
\* check with the counter at or above max_buffer_bytes, the batch it hands over
\* holds everything that was in the buffer, the payload it just wrote last, and the
\* buffer and the counter are empty when it waits again.
C24_BelowThresholdWhenWaiting ==
    /\ [](\A k \in Kinds :
             (maxBufferByteSize >= 1 /\ wpc[k] = "select")
                => bufferSize[k] < maxBufferByteSize)
    /\ [][\A k \in Kinds :
             (/\ maxBufferByteSize >= 1
              /\ wpc[k] = "flushFull"
              /\ wpc'[k] = "select"
              /\ bufferSize[k] >= maxBufferByteSize)
                => /\ Len(uploads'[k]) = Len(uploads[k]) + 1
                   /\ Gunzip(uploads'[k][Len(uploads'[k])].payload.bytes)
                         = OpenData(buffer[k])
                   /\ Flatten([i \in DOMAIN uploads'[k] |->
                                  Gunzip(uploads'[k][i].payload.bytes)])
                         = Lines(received[k])
                   /\ buffer'[k] = <<>>
                   /\ bufferSize'[k] = 0]_vars

\* the second record brought the counter from 1 to 3 = max_buffer_bytes and both
\* records left in one batch of the size check
C24_Witness ==
    /\ maxBufferByteSize = 3
    /\ wpc["auction"] = "select"
    /\ Len(received["auction"]) = 2
    /\ Len(uploads["auction"]) = 1
    /\ uploads["auction"][1].by = "flushFull"
    /\ NewlinesOf(BatchText("auction", 1)) = 2
    /\ bufferSize["auction"] = 0

\* the worker of sink k does the flush of a tick
TickFlushStep(k) ==
    /\ wpc[k] = "flushTick"
    /\ wpc'[k] = "select"

\* the length of the first j batches of the sink together, decompressed
BatchesLen(k, j) == Len(Flatten([i \in 1..j |-> BatchText(k, i)]))

\* the n-th payload the sink received is in a batch whose upload task has made its
\* PUT
Uploaded(k, n) ==
    /\ Len(received[k]) >= n
    /\ \E j \in DOMAIN uploads[k] :
          /\ uploads[k][j].put # <<>>
          /\ BatchesLen(k, j - 1) < Len(Lines(SubSeq(received[k], 1, n)))
          /\ BatchesLen(k, j) >= Len(Lines(SubSeq(received[k], 1, n)))

\* C25: when the worker of a sink handles a tick while the counter is above 0, it
\* hands over exactly one batch, which holds everything buffered since the last
\* flush, under a key with the event type of the sink, and the counter is 0
\* afterwards; and every payload a sink received is sooner or later in a batch that
\* was sent with a PUT.
C25_TickFlushesEverything ==
    /\ [][\A k \in Kinds :
             (TickFlushStep(k) /\ bufferSize[k] > 0)
                => /\ Len(uploads'[k]) = Len(uploads[k]) + 1
                   /\ LET batch == uploads'[k][Len(uploads'[k])]
                      IN  /\ Gunzip(batch.payload.bytes) = OpenData(buffer[k])
                          /\ batch.key.type = k
                   /\ Flatten([i \in DOMAIN uploads'[k] |->
                                  Gunzip(uploads'[k][i].payload.bytes)])
                         = Lines(received[k])
                   /\ bufferSize'[k] = 0]_vars
    /\ \A n \in 1..MaxLogs :
          (Len(received["auction"]) >= n) ~> Uploaded("auction", n)

\* two records, 2 bytes together and below max_buffer_bytes = 3, left in one batch
\* of the tick, and the upload task has made its PUT
C25_Witness ==
    /\ maxBufferByteSize = 3
    /\ Len(received["auction"]) = 2
    /\ Len(uploads["auction"]) = 1
    /\ uploads["auction"][1].by = "flushTick"
    /\ uploads["auction"][1].key.type = "auction"
    /\ uploads["auction"][1].put # <<>>
    /\ NewlinesOf(BatchText("auction", 1)) = 2

\* C26 as stated: when each of the three Log calls had returned before Shutdown was
\* called, and no tick, signal or size check flushed, then once Shutdown has returned
\* an upload task has been started for each event type, under a key of that type,
\* with the one record of that sink.
C26_ShutdownUploadsEachKind ==
    (/\ spc = "returned"
     /\ \A k \in Kinds : atShutdown[k] = 1
     /\ \A k \in Kinds : \A i \in DOMAIN uploads[k] : uploads[k][i].by = "Shutdown")
        => \A k \in Kinds :
              /\ Len(uploads[k]) = 1
              /\ uploads[k][1].key.type = k
              /\ BatchText(k, 1) = Lines(received[k])

\* C27 as stated: once Shutdown has been called, the worker of the sink ends sooner
\* or later.
C27_ShutdownStopsWorker ==
    (spc # "idle") ~> (wpc["auction"] = "done")

\* C27: once the process has got SIGINT or SIGTERM, the worker of the sink takes the
\* signal sooner or later, flushes what it has buffered and ends; a worker that has
\* ended receives no payload, handles no tick and starts no upload any more.
\* Shutdown itself flushes the buffers and stops no worker.
C27_SignalStopsWorker ==
    /\ sigTermCh["auction"] ~> (wpc["auction"] = "done")
    /\ [][wpc["auction"] = "flushTerm"
             => /\ wpc'["auction"] \in {"flushTerm", "done"}
                /\ (wpc'["auction"] = "done" => bufferSize'["auction"] = 0)]_vars
    /\ [][wpc["auction"] = "done"
             => /\ wpc'["auction"] = "done"
                /\ received'["auction"] = received["auction"]
                /\ buffer'["auction"] = buffer["auction"]
                /\ tickC'["auction"] = tickC["auction"]
                /\ (spc \notin Kinds
                       => Len(uploads'["auction"]) = Len(uploads["auction"]))]_vars

\* the worker took the signal with two records buffered, handed them over in one
\* batch and ended
C27_Witness ==
    /\ wpc["auction"] = "done"
    /\ Len(uploads["auction"]) = 1
    /\ uploads["auction"][1].by = "flushTerm"
    /\ NewlinesOf(BatchText("auction", 1)) = 2
    /\ bufferSize["auction"] = 0

\* an upload task of the sink has not made its PUT yet
UploadPending(k) == \E i \in DOMAIN uploads[k] : uploads[k][i].put = <<>>

\* C28: while uploads of a sink have not completed, nothing of the sink waits for
\* them: a flush that is due, of the worker or of Shutdown, can be done, and the
\* worker at its select can take the next payload and the next tick; and the bytes
\* every PUT carries are the batch as it was flushed, the whole records received
\* between the flush before and this one, whatever was buffered in the meantime.
C28_FlushDoesNotWaitForUpload ==
    \A k \in {"auction"} :
        /\ UploadPending(k)
              => /\ wpc[k] \in {"flushFull", "flushTick", "flushTerm"}
                       => ENABLED WorkerFlush(k)
                 /\ spc \in Kinds => ENABLED ShutdownFlush
                 /\ wpc[k] = "bufferEvent" => ENABLED WorkerBufferEvent(k)
                 /\ (wpc[k] = "select" /\ Len(received[k]) < MaxLogs)
                       => ENABLED S3LogObject(k, MaxLogs, PayloadLengths)
                 /\ (wpc[k] = "select" /\ tickC[k]) => ENABLED SelectTick(k)
        /\ \A i \in DOMAIN uploads[k] :
              uploads[k][i].put # <<>>
                 => /\ Gunzip(uploads[k][i].put) # Nil
                    /\ Gunzip(uploads[k][i].put)
                          = SubSeq(Lines(received[k]), BatchesLen(k, i - 1) + 1,
                                   BatchesLen(k, i))

\* the first batch was made by a tick and its upload has still not made its PUT,
\* while the worker has taken another record since and the batch with that record
\* has been sent
C28_Witness ==
    /\ Len(uploads["auction"]) = 2
    /\ uploads["auction"][1].by = "flushTick"
    /\ uploads["auction"][1].put = <<>>
    /\ uploads["auction"][2].put # <<>>
    /\ wpc["auction"] = "select"

----------------------------------------------------------------------------
(* The upload client of the archive sinks: createS3Sender *)

\* an error value: its text and the error it wraps, Nil when it wraps none
Error(msg, cause) == [msg |-> msg, cause |-> cause]

DeadlineExceeded == Error("context deadline exceeded", Nil)

RECURSIVE ErrorsIs(_, _)
\* errors.Is: the target is the error or one of the errors it wraps
ErrorsIs(err, target) ==
    IF err = Nil THEN FALSE
    ELSE IF err = target THEN TRUE
    ELSE ErrorsIs(err.cause, target)

Errorv(msg, err) == Error(msg, Nil)

\* fmt.Errorf(msg + ": %w", err)
Errorf(msg, err) == Error(msg, err)

\* what PutObject of the S3 client returns for each outcome of the upload
PutObjectError(put) ==
    CASE put = "ok" -> Nil
      [] put = "fails" -> Error("access denied", Nil)
      [] put = "timeout" -> Error("operation error S3: PutObject", DeadlineExceeded)

\* attemptUpload: one PutObject with bucket, key, body and content type
attemptUpload(payload, key, put) ==
    [calls |-> <<[Bucket |-> "bucket", Key |-> key, Body |-> payload,
                  ContentType |-> "application/gzip"]>>,
     err |-> PutObjectError(put)]

ReplaceFirst(s, old, new) ==
    [i \in DOMAIN s |->
        IF s[i] = old /\ (\A j \in 1..(i - 1) : s[j] # old) THEN new ELSE s[i]]

\* strings.ReplaceAll for strings of one character
ReplaceAll(s, old, new) == [i \in DOMAIN s |-> IF s[i] = old THEN new ELSE s[i]]

\* filepath.Join of a directory and a file name without separators
Join(dir, name) == dir \o <<47>> \o name

\* writeFallbackFile: the file named after the key, with '/' (47) replaced by '_'
\* (95), is created or truncated and the payload copied into it; `fs` is what the
\* file system does: "createFails" leaves the files as they were, "copyFails" leaves
\* the file with part of the payload
writeFallbackFile(fallbackDir, s3Key, payload, files, fs) ==
    LET filename == ReplaceAll(s3Key, 47, 95)
        filePath == Join(fallbackDir, filename)
    IN  CASE fs = "createFails" ->
               [files |-> files,
                err |-> Error("failed to create fallback file", Error("open", Nil))]
          [] fs = "copyFails" ->
               [files |-> MapPut(files, filePath, SubSeq(payload, 1, Len(payload) - 1)),
                err |-> Error("failed to write to fallback file", Error("write", Nil))]
          [] fs = "ok" ->
               [files |-> MapPut(files, filePath, payload), err |-> Nil]

\* one S3 analytics metric
S3Metric(destination, status) == [destination |-> destination, status |-> status]

\* the function createS3Sender returns, called with payload and key, for a
\* configuration with the given fallback_dir and the given behaviour of the object
\* store and the file system: the error it returns, the PutObject calls it made, the
\* local files afterwards and the metrics it recorded
createS3Sender(payload, key, fallbackDir, files, put, fs) ==
    LET up == attemptUpload(payload, key, put)
        status == IF ErrorsIs(up.err, DeadlineExceeded) THEN "timeout" ELSE "failure"
        fb == writeFallbackFile(fallbackDir, key, payload, files, fs)
    IN  IF up.err = Nil
        THEN [err |-> Nil, calls |-> up.calls, files |-> files,
              metrics |-> <<S3Metric("s3", "success")>>]
        ELSE IF fallbackDir # <<>>
             THEN [err |-> Errorf("s3 upload failed", up.err), calls |-> up.calls,
                   files |-> fb.files,
                   metrics |-> <<S3Metric("s3", status),
                                 S3Metric("local", IF fb.err # Nil THEN "failure"
                                                   ELSE "success")>>]
             ELSE [err |-> Errorf("s3 upload failed", up.err), calls |-> up.calls,
                   files |-> files, metrics |-> <<S3Metric("s3", status)>>]

\* the batches handed to the upload client
SenderPayloads == {<<31, 139, 65, 10, 0>>, <<31, 139, 65, 10, 66, 10, 0>>}

\* the keys: "p/k", "p/e/k", "k" and "p_k"
SenderKeys == {<<112, 47, 107>>, <<112, 47, 101, 47, 107>>, <<107>>, <<112, 95, 107>>}

\* fallback_dir of the configuration: not set, or "d"
FallbackDirs == {<<>>, <<100>>}

\* the local files before the call: none, or a stale file "d/p_k"
FilesBefore == {EmptyMap, MapPut(EmptyMap, <<100, 47, 112, 95, 107>>, <<9>>)}

SenderCall ==
    /\ \E payload \in SenderPayloads, key \in SenderKeys, fallbackDir \in FallbackDirs,
          files \in FilesBefore, put \in {"ok", "fails", "timeout"},
          fs \in {"ok", "createFails", "copyFails"} :
          last' = [op |-> "sender", payload |-> payload, key |-> key,
                   fallbackDir |-> fallbackDir, before |-> files, put |-> put,
                   fs |-> fs,
                   result |-> createS3Sender(payload, key, fallbackDir, files, put,
                                             fs)]
    /\ UNCHANGED <<byAccount, count, now, activeFilters, nonRegistryVars>>

InitSender ==
    /\ byAccount = EmptyMap
    /\ count = 0
    /\ now = 0
    /\ activeFilters = 0
    /\ last = [op |-> "createS3Sender"]
    /\ MediaIdle
    /\ ConsumerIdle
    /\ LoopIdle
    /\ SinkIdle
    /\ ModuleIdle

NextSender == SenderCall

SpecSender == InitSender /\ [][NextSender]_vars

----------------------------------------------------------------------------
(* Properties of the upload client *)

LastIsSender == last.op = "sender"

\* C29: the upload client returns no error exactly when the PUT succeeded; when the
\* PUT failed it returns an error that wraps the error of the PUT, so that a
\* deadline-exceeded cause is still found by errors.Is, whether no fallback_dir is
\* set, the fallback file was written, or writing it failed.
C29_ErrorWrapsUploadError ==
    LastIsSender
        => /\ (last.result.err = Nil) <=> (last.put = "ok")
           /\ last.put # "ok"
                => /\ last.result.err # Nil
                   /\ last.result.err # PutObjectError(last.put)
                   /\ ErrorsIs(last.result.err, PutObjectError(last.put))
                   /\ (last.put = "timeout")
                         <=> ErrorsIs(last.result.err, DeadlineExceeded)

\* the PUT ran into the deadline, fallback_dir is set and the fallback file could
\* not be created: the error returned still has the deadline as its cause
C29_Witness ==
    /\ LastIsSender
    /\ last.put = "timeout"
    /\ last.fallbackDir # <<>>
    /\ last.fs = "createFails"
    /\ last.result.files = last.before
    /\ last.result.err.msg = "s3 upload failed"
    /\ ErrorsIs(last.result.err, DeadlineExceeded)

\* the call went to the fallback: it recorded a metric of the local destination
FallbackAttempted ==
    \E i \in DOMAIN last.result.metrics : last.result.metrics[i].destination = "local"

----------------------------------------------------------------------------
(* Further properties of the registry *)

\* the stored filters the sweep and the matcher treat as expired at time t
ExpiredAt(t) ==
    {k \in StoredKeys : /\ Stored(k[1], k[2]).req.ExpiresAtMs > 0
                        /\ Stored(k[1], k[2]).req.ExpiresAtMs < t}

\* C35: between operations Count() is the number of (account_id, session_id)
\* entries stored over all accounts, and is never negative, and a call of Count
\* returns that number.
C35_CountIsNumberStored ==
    /\ Count = Cardinality(StoredKeys)
    /\ Count >= 0
    /\ last.op = "Count" => last.result = Cardinality(StoredKeys)

\* a sweep took one of two stored filters away and Count was read afterwards
C35_Witness ==
    /\ last.op = "Count"
    /\ last.result = 1
    /\ Cardinality(StoredKeys) = 1
    /\ now = MaxTime
    /\ ExpiredAt(now) = {}

\* C36: a Register of a new key while Count() = max_filters is rejected with the
\* at-capacity error and leaves map and count alone, also when stored filters have
\* expired; and the count goes down in no step other than Unregister and
\* cleanupExpired, a GetMatches that skips a filter leaving map and count as they were.
C36_ExpiredStillCounted ==
    [][/\ (/\ last'.op = "Register"
           /\ last'.err # "ErrInvalidFilterRequest"
           /\ ~last'.exists
           /\ Count >= MaxFilters)
             => /\ last'.err = "ErrRegistryAtCapacity"
                /\ byAccount' = byAccount
                /\ count' = count
       /\ count' < count => last'.op \in {"Unregister", "cleanupExpired"}
       /\ last'.op = "GetMatches" => (byAccount' = byAccount /\ count' = count)]_vars

\* the registry is full of filters that have all expired, none of them has been
\* swept, and a Register of a third key was rejected
C36_Witness ==
    /\ LastIsRegister
    /\ last.err = "ErrRegistryAtCapacity"
    /\ Count = MaxFilters
    /\ ExpiredAt(now) = StoredKeys
    /\ Cardinality(StoredKeys) = MaxFilters

\* C37 as stated: after a successful Register at time t the stored expires_at_ms is
\* above 0 and at most t + max_TTL, whatever value was requested.
C37_LifetimeBounded ==
    (LastIsRegister /\ last.err = "nil")
        => LET stored == Stored(LastKey[1], LastKey[2]).req.ExpiresAtMs
           IN  stored > 0 /\ stored <= last.t + MaxTTL

\* C38: a GetMatches or a Count leaves the stored filters, the count and the gauge
\* exactly as they were; a filter GetMatches skipped as expired is still stored.
C38_ReadsChangeNothing ==
    [][last'.op \in {"GetMatches", "Count"}
          => /\ byAccount' = byAccount
             /\ count' = count
             /\ activeFilters' = activeFilters
             /\ now' = now]_vars

\* GetMatches for the account returned nothing because its only filter has expired,
\* and the filter is still stored and counted
C38_Witness ==
    /\ last.op = "GetMatches"
    /\ last.result = <<>>
    /\ last.q.domain = <<>>
    /\ last.q.accountID \in DOMAIN byAccount
    /\ \A sid \in DOMAIN byAccount[last.q.accountID] :
          <<last.q.accountID, sid>> \in ExpiredAt(now)
    /\ Count >= 1

\* the string has an upper-case ASCII letter
HasUpper(s) == \E i \in DOMAIN s : s[i] \in 65..90

----------------------------------------------------------------------------
(* Further properties of consumeLoop *)

\* with this step Consume returns the closed-consumer-group error
ClosedReturnStep ==
    /\ Len(returns') = Len(returns) + 1
    /\ returns'[Len(returns')].outcome = "closed"

\* C33: when Consume returns the closed-consumer-group error the loop ends with
\* that step: the failure counter stays as it was, no connection error is recorded,
\* the clock is where the return left it, and the loop calls Consume no more and
\* sleeps no more.
C33_ClosedGroupEndsLoopQuietly ==
    /\ [][ClosedReturnStep
             => /\ lpc' = "closed"
                /\ consecutiveFailures' = consecutiveFailures
                /\ returns'[Len(returns')].errors = <<>>
                /\ lnow' = returns'[Len(returns')].returnedAt]_vars
    /\ [][lpc = "closed"
             => /\ lpc' = "closed"
                /\ returns' = returns
                /\ lnow' = lnow
                /\ consecutiveFailures' = consecutiveFailures]_vars

\* Consume had failed four times in a row, then the consumer was closed: the loop
\* ended with the counter still at 4 and four connection errors recorded
C33_Witness ==
    /\ lpc = "closed"
    /\ consecutiveFailures = maxConsumeRetries - 1
    /\ Len(returns) = maxConsumeRetries
    /\ returns[Len(returns)].outcome = "closed"
    /\ \A i \in 1..(Len(returns) - 1) : returns[i].errors = <<"connection">>

----------------------------------------------------------------------------
(* The module: cleanupLoop and Shutdown *)

MaxStopConsumes == 1    \* calls of Consume before the cancellation, in one run

\* what a Close may report
CloseErrors == {"nil", "error"}

\* the statements of Shutdown, in the order of its body
ShutdownOrder == <<"cancel", "filterConsumer.Close", "producer.Close", "return">>

ShutdownDueUnlessFailed(steps, step) ==
    /\ Len(steps) < Len(ShutdownOrder)
    /\ IF Len(steps) >= 2 /\ steps[2].err # "nil"
       THEN Len(steps) = 2 /\ step = "return"
       ELSE ShutdownOrder[Len(steps) + 1] = step

\* the statement Shutdown executes next is step: an error of a Close is logged and the
\* body goes on
ShutdownDue(steps, step) ==
    /\ Len(steps) < Len(ShutdownOrder)
    /\ ShutdownOrder[Len(steps) + 1] = step

ShutdownStep(step, err) ==
    /\ ShutdownDue(shutdownSteps, step)
    /\ shutdownSteps' = Append(shutdownSteps, [step |-> step, err |-> err])
    /\ last' = [op |-> "Shutdown", step |-> step, err |-> err]
    /\ UNCHANGED <<byAccount, count, now, activeFilters, mediaVars, consumerVars,
                   sinkVars, lpc, consecutiveFailures, returns, lnow, clpc, sending>>

\* m.cancel()
ShutdownCancel ==
    /\ ShutdownStep("cancel", "nil")
    /\ fcCtxDone' = TRUE

\* m.filterConsumer.Close()
ShutdownCloseConsumer ==
    /\ \E err \in CloseErrors : ShutdownStep("filterConsumer.Close", err)
    /\ UNCHANGED fcCtxDone

\* m.producer.Close()
ShutdownCloseProducer ==
    /\ \E err \in CloseErrors : ShutdownStep("producer.Close", err)
    /\ UNCHANGED fcCtxDone

\* the end of the body of Shutdown
ShutdownReturn ==
    /\ ShutdownStep("return", "nil")
    /\ UNCHANGED fcCtxDone

\* m.producer.Close() has been called
ProducerClosed ==
    \E i \in DOMAIN shutdownSteps : shutdownSteps[i].step = "producer.Close"

cleanupLoopSelectsAlways(pc) == TRUE

\* cleanupLoop is at its select
cleanupLoopSelects(pc) == pc = "select"

\* case <-ticker.C
CleanupLoopTick ==
    /\ cleanupLoopSelects(clpc)
    /\ cleanupExpired

\* case <-ctx.Done()
CleanupLoopDone ==
    /\ clpc = "select"
    /\ fcCtxDone
    /\ clpc' = "done"
    /\ UNCHANGED <<registryVars, mediaVars, consumerVars, loopVars, sinkVars,
                   shutdownSteps, sending>>

\* NewModule has returned the module: cleanupLoop and consumeLoop run
InitModule ==
    /\ byAccount = EmptyMap
    /\ count = 0
    /\ now = 0
    /\ activeFilters = 0
    /\ last = [op |-> "NewModule"]
    /\ MediaIdle
    /\ ConsumerIdle
    /\ SinkIdle
    /\ lpc = "consume"
    /\ consecutiveFailures = 0
    /\ returns = <<>>
    /\ lnow = 0
    /\ fcCtxDone = FALSE
    /\ clpc = "select"
    /\ shutdownSteps = <<>>
    /\ sending = [k \in Kinds |-> FALSE]

\* the calls of Consume followed: those before the cancellation up to the bound, those
\* after it as many as the loop can make
StopConsumes == IF fcCtxDone THEN MaxStopConsumes + maxConsumeRetries ELSE MaxStopConsumes

ConsumeReturns ==
    \/ ConsumeFails(StopConsumes)
    \/ ConsumeClosed(StopConsumes)
    \/ ConsumeSucceeds(StopConsumes)

\* the two background loops of the module while Shutdown runs
NextStop ==
    \/ ConsumeReturns
    \/ SleepDone
    \/ CleanupLoopTick
    \/ CleanupLoopDone
    \/ ShutdownCancel
    \/ ShutdownCloseConsumer
    \/ ShutdownCloseProducer
    \/ ShutdownReturn

\* every call of Consume returns, the sleep ends, and the select of cleanupLoop takes
\* the case of ctx.Done() once that case stays ready
FairStop ==
    /\ WF_vars(ConsumeReturns)
    /\ WF_vars(SleepDone)
    /\ WF_vars(CleanupLoopDone)

SpecStop == InitModule /\ [][NextStop]_vars /\ FairStop

----------------------------------------------------------------------------
(* Properties of the module *)

Steps(n) == [i \in 1..n |-> shutdownSteps[i].step]

\* C31: Shutdown signals the cancellation, then closes the filter consumer, then closes
\* the producer, in this order; the producer is closed also when closing the consumer
\* reported an error; and Shutdown returns normally whatever the two closes reported.
C31_ShutdownOrder ==
    /\ Len(shutdownSteps) <= Len(ShutdownOrder)
    /\ Steps(Len(shutdownSteps)) = SubSeq(ShutdownOrder, 1, Len(shutdownSteps))
    /\ Len(shutdownSteps) >= 1 => fcCtxDone
    /\ Len(shutdownSteps) = 2 => ENABLED ShutdownCloseProducer
    /\ Len(shutdownSteps) = 3 => ENABLED ShutdownReturn
    /\ Len(shutdownSteps) = 4 => shutdownSteps[4].err = "nil"

\* Shutdown has returned after both closes reported an error
C31_Witness ==
    /\ Len(shutdownSteps) = 4
    /\ shutdownSteps[2].err = "error"
    /\ shutdownSteps[3] = [step |-> "producer.Close", err |-> "error"]
    /\ shutdownSteps[4].step = "return"

\* consumeLoop has returned
LoopReturned == lpc \in {"closed", "gaveUp", "cancelled"}

\* a step in which cleanupExpired ran
SweepStep == last'.op = "cleanupExpired" /\ last' # last

\* C32: once the cancellation is signalled, cleanupLoop returns and runs no
\* cleanupExpired after that, and consumeLoop returns, each call of Consume returning:
\* also when the signal comes during the retry delay or Consume reports it as an error.
C32_CancellationStopsLoops ==
    /\ fcCtxDone ~> clpc = "done"
    /\ fcCtxDone ~> LoopReturned
    /\ (fcCtxDone /\ lpc = "sleeping") ~> LoopReturned
    /\ [][clpc = "done" => clpc' = "done" /\ ~SweepStep]_vars

\* cancelled during the retry delay, the loop slept, called Consume again, got an error
\* and a nil after it, and returned; cleanupLoop has returned and Shutdown went on
C32_Witness ==
    /\ fcCtxDone
    /\ clpc = "done"
    /\ lpc = "cancelled"
    /\ Len(returns) = 3
    /\ returns[1].outcome = "error"
    /\ returns[2].outcome = "error"
    /\ returns[2].calledAt = returns[1].returnedAt + consumeRetryDelay
    /\ returns[3].outcome = "nil"
    /\ last.op = "Shutdown"

\* auctions logged while filters arrive and Shutdown runs
NextRace ==
    \/ RegisterAuditCall
    \/ LogAuctionObjectCall
    \/ ShutdownCancel
    \/ ShutdownCloseConsumer
    \/ ShutdownCloseProducer
    \/ ShutdownReturn

SpecRace == InitModule /\ [][NextRace]_vars

\* C39: no call of LogAuctionObject hands a message to the producer once Shutdown has
\* closed the producer, however the calls interleave with Shutdown.
C39_NoSendAfterClose ==
    (ProducerClosed /\ LastIsLog) => last.enqueued = <<>>

----------------------------------------------------------------------------
(* The archive sinks: a caller at the send *)

\* the auction logger with the callers followed up to their send and from it
NextSend ==
    \/ S3LogObjectSends("auction", MaxLogs)
    \/ S3LogObjectReturns("auction", MaxLogs, {1})
    \/ WorkerBufferEvent("auction")
    \/ WorkerIsFull("auction")
    \/ SelectTick("auction")
    \/ SelectSigTerm("auction")
    \/ WorkerFlush("auction")
    \/ TickFires("auction")
    \/ UploadRuns("auction")
    \/ Signal
    \/ ShutdownCall
    \/ ShutdownFlush

\* besides the fairness of the worker: a select at which a sender waits takes the case
\* of bufferCh again and again
FairSend ==
    /\ FairSink
    /\ SF_vars(S3LogObjectReturns("auction", MaxLogs, {1}))

SpecSend == InitSinkWith({3}) /\ [][NextSend]_vars /\ FairSend

\* C40: every send of a payload into the channel of a sink completes: also while the
\* worker is inside a flush and after the worker has handled the signal and left its
\* loop.
C40_SendCompletes ==
    sending["auction"] ~> ~sending["auction"]

====
